---------------------------- MODULE Spec2Model ----------------------------
(***************************************************************************)
(* Model of the plugin management and submission pipeline of               *)
(* brainscore_core:                                                        *)
(*   - ImportPlugin.locate_plugin, import_plugin                           *)
(*                                  (plugin_management/import_plugin)      *)
(*   - PluginTestRunner, run_args   (plugin_management/test_plugins)       *)
(*   - CondaScore, wrap_score       (plugin_management/conda_score)        *)
(*   - RunScoringEndpoint           (submission/endpoints)                 *)
(*   - parse_plugin_changes         (plugin_management/parse_plugin_changes)*)
(*   - validate_metadata_file       (plugin_management/handle_metadata)    *)
(* The specifications share the module; each one moves only its own        *)
(* variables.                                                              *)
(***************************************************************************)
EXTENDS Integers, Sequences, FiniteSets, TLC

VARIABLES
    \* ---- ImportPlugin.locate_plugin
    plugins_dir,    \* listing of the plugin-type directory (iterdir order)
    loc,            \* the locate_plugin call and its result
    \* ---- test_plugins.run_args and PluginTestRunner
    pc,             \* control point of run_args
    batch,          \* the batch: [mode, size] (all plugins, or the listed test files)
    idx,            \* position of the loop over the batch
    plugin_dirs,    \* per item: what the runner found in the plugin directory
    runner,         \* per item: progress of its PluginTestRunner
    returncode,     \* per item: PluginTestRunner.returncode
    test_envs,      \* per item: state of the conda environment of the runner
    results,        \* run_args' results dict: plugin -> return code
    outcome,        \* how run_args ended: [kind, cause, errors]
    \* ---- conda_score.CondaScore and wrap_score
    files,          \* the score files on disk
    runs,           \* per scoring run: its parameters and progress
    rt,             \* a save_score / consume_score sequence in one process
    \* ---- one interpreter calling import_plugin and wrap_score
    proc,           \* its BS_INSTALL_DEPENDENCIES, its site-packages, its last call
    \* ---- submission.endpoints.RunScoringEndpoint
    db,             \* the database: submissions, models, scores
    scoring,        \* the calls of the endpoint made so far
    \* ---- plugin_management.parse_plugin_changes
    changed,        \* the changed files of a pull request, in order
    parsed,         \* the last call on the changed files and its result
    \* ---- plugin_management.handle_metadata
    metadata_file,  \* the metadata document on disk
    validation,     \* the result of validate_metadata_file on it
    cli,            \* a run of the handle_metadata command line
    \* ---- submission.endpoints.shorten_text
    shorten,        \* a call of shorten_text: its arguments and its result
    \* ---- submission.database
    tables,         \* the rows of the tables
    dbcall,         \* the last call on the database and what it found
    safe,           \* a call of safe_create_model_meta_entry
    \* ---- supported_data_standards.brainio.s3 and fetch
    s3,             \* the bucket, the local files and the calls that loaded files
    \* ---- concurrent writers of the database
    conc            \* the rows they inserted, and each writer's position

locVars == <<plugins_dir, loc>>
testVars == <<pc, batch, idx, plugin_dirs, runner, returncode, test_envs, results, outcome>>
scoreVars == <<files, runs>>
endpointVars == <<db, scoring>>
changeVars == <<changed, parsed>>
metadataVars == <<metadata_file, validation>>
databaseVars == <<tables, dbcall, safe>>
vars == <<locVars, testVars, scoreVars, rt, proc, endpointVars, changeVars, metadataVars, cli, shorten, databaseVars, s3, conc>>

otherThanLocate == <<testVars, scoreVars, rt, proc, endpointVars, changeVars, metadataVars, cli, shorten, databaseVars, s3, conc>>
otherThanTests == <<locVars, scoreVars, rt, proc, endpointVars, changeVars, metadataVars, cli, shorten, databaseVars, s3, conc>>
otherThanRuns == <<locVars, testVars, rt, proc, endpointVars, changeVars, metadataVars, cli, shorten, databaseVars, s3, conc>>
otherThanRt == <<locVars, testVars, runs, proc, endpointVars, changeVars, metadataVars, cli, shorten, databaseVars, s3, conc>>
otherThanProc == <<locVars, testVars, runs, rt, endpointVars, changeVars, metadataVars, cli, shorten, databaseVars, s3, conc>>
otherThanEndpoint == <<locVars, testVars, scoreVars, rt, proc, changeVars, metadataVars, cli, shorten, databaseVars, s3, conc>>
otherThanChanges == <<locVars, testVars, scoreVars, rt, proc, endpointVars, metadataVars, cli, shorten, databaseVars, s3, conc>>
otherThanMetadata == <<locVars, testVars, scoreVars, rt, proc, endpointVars, changeVars, cli, shorten, databaseVars, s3, conc>>
otherThanCli == <<locVars, testVars, scoreVars, rt, proc, endpointVars, changeVars, shorten, databaseVars, s3, conc>>
otherThanShorten == <<locVars, testVars, scoreVars, rt, proc, endpointVars, changeVars, metadataVars, cli, databaseVars, s3, conc>>
otherThanDatabase == <<locVars, testVars, scoreVars, rt, proc, endpointVars, changeVars, metadataVars, cli, shorten, s3, conc>>
otherThanS3 == <<locVars, testVars, scoreVars, rt, proc, endpointVars, changeVars, metadataVars, cli, shorten, databaseVars, conc>>
otherThanWriters == <<locVars, testVars, scoreVars, rt, proc, endpointVars, changeVars, metadataVars, cli, shorten, databaseVars, s3>>

(***************************************************************************)
(* Generic helpers on sequences (strings and paths are sequences).         *)
(***************************************************************************)

\* Python's `pattern in text` for sequences of tokens: a contiguous occurrence.
Contains(pattern, text) ==
    \E k \in 0..(Len(text) - Len(pattern)) :
        \A j \in 1..Len(pattern) : text[k + j] = pattern[j]

\* str.startswith for a one-character prefix.
StartsWith(name, ch) == Len(name) > 0 /\ name[1] = ch

(***************************************************************************)
(* EnvironmentManager, the base class of PluginTestRunner and CondaScore.  *)
(* A conda environment is "absent", "created" or "removed".                *)
(***************************************************************************)

\* run_in_env(run_command): the command creates the environment and runs in it;
\* the completed process is handed back whatever its return code.  When running
\* the command raises, the environment is torn down before the exception
\* propagates.
EnvAfterRunInEnv(raised) == IF raised THEN "removed" ELSE "created"

\* teardown(): the environment is removed.
EnvAfterTeardown == "removed"

(***************************************************************************)
(* ImportPlugin.locate_plugin                                              *)
(***************************************************************************)

\* Bounds of the directory listings explored.
MaxDirs == 3
MaxLines == 2

\* Names given to the entries of the plugins directory, by position.
\* A name is a sequence of characters so that startswith can be evaluated.
DirNames ==
    << <<"a", "l", "e", "x">>, <<"_", "_", "p", "y">>,
       <<"r", "e", "s">>, <<".", "g", "i", "t">> >>

DirName(i) == IF i <= Len(DirNames) THEN DirNames[i] ELSE <<"d", i>>

Identifiers == {"alexnet", "resnet"}
RegistryNames == {"model_registry", "data_registry"}

\* Lines an __init__.py may hold, as token sequences.
InitLines ==
    { <<"model_registry", "[", "\"", "alexnet", "\"", "]", "=", "f">>,
      <<"model_registry", "[", "'", "resnet", "'", "]", "=", "g">>,
      <<"data_registry", "[", "'", "alexnet", "'", "]", "=", "h">>,
      <<"from", ".model", "import", "f">> }

\* The name carried while no directory has registered the identifier.
NoDir == <<>>

\* line.replace('\"', '\'')
ReplaceQuotes(line) ==
    [k \in 1..Len(line) |-> IF line[k] = "\"" THEN "'" ELSE line[k]]

\* f"{self.registry_name}['{self.identifier}']"
RegistrationPattern(registry_name, identifier) ==
    <<registry_name, "[", "'", identifier, "'", "]">>

\* plugin_registrations = [line for line in f if pattern in line.replace(...)]
PluginRegistrations(init, registry_name, identifier) ==
    SelectSeq(init, LAMBDA line :
        Contains(RegistrationPattern(registry_name, identifier), ReplaceQuotes(line)))

\* Faulty variant: counts registration lines instead of registering directories.
LocateStepCountLines(acc, e, registry_name, identifier) ==
    IF StartsWith(e.name, ".") \/ StartsWith(e.name, "_") THEN acc
    ELSE IF ~e.has_init THEN acc
    ELSE IF Len(PluginRegistrations(e.init, registry_name, identifier)) > 0
         THEN [dirname |-> e.name,
               count |-> acc.count + Len(PluginRegistrations(e.init, registry_name, identifier))]
         ELSE acc

\* One iteration of the for loop of locate_plugin over entry e, from the
\* accumulator acc = [dirname, count].
LocateStep(acc, e, registry_name, identifier) ==
    IF StartsWith(e.name, ".") \/ StartsWith(e.name, "_") THEN acc
    ELSE IF ~e.has_init THEN acc
    ELSE IF Len(PluginRegistrations(e.init, registry_name, identifier)) > 0
         THEN [dirname |-> e.name, count |-> acc.count + 1]
         ELSE acc

RECURSIVE LocateLoop(_, _, _, _)
LocateLoop(plugins, acc, registry_name, identifier) ==
    IF plugins = <<>> THEN acc
    ELSE LocateLoop(Tail(plugins),
                    LocateStep(acc, Head(plugins), registry_name, identifier),
                    registry_name, identifier)

\* locate_plugin: the listing keeps the directories only, the loop counts the
\* registering directories, the two assertions raise, the name is returned.
locate_plugin(listing, registry_name, identifier) ==
    LET plugins == SelectSeq(listing, LAMBDA d : d.is_dir)
        acc == LocateLoop(plugins, [dirname |-> NoDir, count |-> 0],
                          registry_name, identifier)
    IN  IF ~(acc.count > 0) THEN [outcome |-> "raised", dirname |-> NoDir]
        ELSE IF ~(acc.count = 1) THEN [outcome |-> "raised", dirname |-> NoDir]
        ELSE [outcome |-> "returned", dirname |-> acc.dirname]

\* Value of loc before locate_plugin has been called.
NotCalled ==
    [called |-> FALSE, registry_name |-> "", identifier |-> "",
     result |-> [outcome |-> "", dirname |-> NoDir]]

LocInit ==
    /\ plugins_dir = <<>>
    /\ loc = NotCalled

\* A directory or a plain file appears in the plugins directory.
CreateEntry ==
    /\ ~loc.called
    /\ Len(plugins_dir) < MaxDirs
    /\ \E d \in BOOLEAN :
        plugins_dir' = Append(plugins_dir,
            [name |-> DirName(Len(plugins_dir) + 1), is_dir |-> d,
             has_init |-> FALSE, init |-> <<>>])
    /\ UNCHANGED loc
    /\ UNCHANGED otherThanLocate

TotalLines(listing) ==
    LET RECURSIVE Sum(_)
        Sum(i) == IF i = 0 THEN 0 ELSE Len(listing[i].init) + Sum(i - 1)
    IN  Sum(Len(listing))

\* A line is written to the __init__.py of a directory.
WriteInitLine ==
    /\ ~loc.called
    /\ TotalLines(plugins_dir) < MaxLines
    /\ \E i \in DOMAIN plugins_dir, line \in InitLines :
        /\ plugins_dir[i].is_dir
        /\ plugins_dir' = [plugins_dir EXCEPT ![i].has_init = TRUE,
                                              ![i].init = Append(@, line)]
    /\ UNCHANGED loc
    /\ UNCHANGED otherThanLocate

\* ImportPlugin.locate_plugin is called for an identifier.
LocatePlugin ==
    /\ ~loc.called
    /\ \E r \in RegistryNames, id \in Identifiers :
        loc' = [called |-> TRUE, registry_name |-> r, identifier |-> id,
                result |-> locate_plugin(plugins_dir, r, id)]
    /\ UNCHANGED plugins_dir
    /\ UNCHANGED otherThanLocate

LocNext == CreateEntry \/ WriteInitLine \/ LocatePlugin

(***************************************************************************)
(* test_plugins: PluginTestRunner, run_specified_tests, run_all_tests,     *)
(* run_args.  The conda environment operations (run_in_env, teardown) are  *)
(* those of EnvironmentManager, the base class of the runner.              *)
(***************************************************************************)

\* Bound on the number of plugins (or listed test files) of one batch.
MaxBatch == 3

\* Return codes a test command ends with: 0 passed, 1 tests failed,
\* 5 no tests collected (pytest).
ReturnCodes == {0, 1, 5}

\* File names, as sequences of characters.
TestPy == <<"t", "e", "s", "t", ".", "p", "y">>
TestPluginPy == <<"t", "e", "s", "t", "_", "x", ".", "p", "y">>
TestNoDotPy == <<"t", "e", "s", "t", "x", "p", "y">>
ModelPy == <<"m", "o", "d", ".", "p", "y">>
TestPyc == <<"t", "e", "s", "t", ".", "p", "y", "c">>

\* re.match(RECOGNIZED_TEST_FILES, name) with RECOGNIZED_TEST_FILES = r'test.*\.py':
\* anchored at the start only.
RecognizedTestFile(name) ==
    /\ Len(name) >= 4
    /\ SubSeq(name, 1, 4) = <<"t", "e", "s", "t">>
    /\ \E k \in 5..(Len(name) - 2) : SubSeq(name, k, k + 2) = <<".", "p", "y">>

\* Contents of an environment.yml after yaml.dump(yaml.safe_load(f)): lines of tokens.
YmlClean == << <<"dependencies", ":">>, <<"-", "numpy">> >>
YmlNamed == << <<"name", ":", "myenv">>, <<"dependencies", ":">>, <<"-", "numpy">> >>
YmlPython311 == << <<"dependencies", ":">>, <<"-", "python=", "3.11">> >>
YmlPython38 == << <<"dependencies", ":">>, <<"-", "python=", "3.8">> >>
YmlTwoPythons ==
    << <<"dependencies", ":">>, <<"-", "python=", "3.11">>, <<"-", "python=", "3.8">> >>

\* What a runner may find in its plugin directory.
PluginDirStates ==
    [files : {{ModelPy}, {ModelPy, TestPy}, {TestPluginPy}, {ModelPy, TestNoDotPy},
              {ModelPy, TestPyc}},
     has_yml : {FALSE}, yml : {<<>>}]
    \cup
    [files : {{ModelPy, TestPy}},
     has_yml : {TRUE},
     yml : {YmlClean, YmlNamed, YmlPython311, YmlPython38, YmlTwoPythons}]

NoDirState == [files |-> {}, has_yml |-> FALSE, yml |-> <<>>]

\* PluginTestRunner._validate_test_files: "ok" or the assertion fails.
ValidateTestFiles(d) ==
    IF Cardinality({f \in d.files : RecognizedTestFile(f)}) > 0
    THEN "ok" ELSE "AssertionError"

\* python_version.startswith('3.11')
StartsWith311(version) == version \in {"3.11", "3.11.4"}

\* PluginTestRunner._validate_environment_yml
ValidateEnvironmentYml(d) ==
    IF ~d.has_yml THEN "ok"
    ELSE IF \E k \in DOMAIN d.yml : Contains(<<"name">>, d.yml[k]) THEN "AssertionError"
    ELSE LET python_specs == SelectSeq(d.yml, LAMBDA line : Contains(<<"python=">>, line))
         IN  IF Len(python_specs) = 1
             THEN (IF StartsWith311(python_specs[1][3]) THEN "ok" ELSE "AssertionError")
             ELSE IF Len(python_specs) > 1 THEN "YAMLError"
             ELSE "ok"

\* Faulty variant: the environment.yml is not validated.
ValidatePluginTestFilesOnly(d) == ValidateTestFiles(d)

\* PluginTestRunner.validate_plugin
validate_plugin(d) ==
    IF ValidateTestFiles(d) # "ok" THEN ValidateTestFiles(d)
    ELSE ValidateEnvironmentYml(d)

Items == 1..MaxBatch
BatchItems == 1..batch.size

NoOutcome == [kind |-> "running", cause |-> "", errors |-> <<>>]

TestInit ==
    /\ pc = "idle"
    /\ batch = [mode |-> "none", size |-> 0]
    /\ idx = 0
    /\ plugin_dirs = [i \in Items |-> NoDirState]
    /\ runner = [i \in Items |-> "none"]
    /\ returncode = [i \in Items |-> 0]
    /\ test_envs = [i \in Items |-> "absent"]
    /\ results = <<>>
    /\ outcome = NoOutcome

\* run_args is called: without test files the batch is every plugin directory
\* (run_all_tests), otherwise the listed test files.
RunArgs ==
    /\ pc = "idle"
    /\ \E mode \in {"all", "specified"}, n \in 1..MaxBatch :
        batch' = [mode |-> mode, size |-> n]
    /\ idx' = 1
    /\ pc' = "next"
    /\ UNCHANGED <<plugin_dirs, runner, returncode, test_envs, results, outcome>>
    /\ UNCHANGED otherThanTests

\* An uncaught exception leaves run_args.
Raise(cause) ==
    /\ pc' = "done"
    /\ outcome' = [kind |-> "raised", cause |-> cause, errors |-> <<>>]

\* run_all_tests: an entry of the plugins directory that is not a directory, or a
\* vision model outside MODEL_SUBSET, is passed over.
SkipPlugin ==
    /\ pc = "next"
    /\ batch.mode = "all"
    /\ runner[idx] = "none"
    /\ runner' = [runner EXCEPT ![idx] = "skipped"]
    /\ pc' = "record"
    /\ UNCHANGED <<batch, idx, plugin_dirs, returncode, test_envs, results, outcome>>
    /\ UNCHANGED otherThanTests

\* The runner of the next item is constructed: PluginTestRunner(plugin) in
\* run_all_tests; in run_args / run_specified_tests after the three assertions
\* on the test file (it exists, its name is a test file, its type is a plugin type).
NewRunner ==
    /\ pc = "next"
    /\ runner[idx] = "none"
    /\ \/ /\ runner' = [runner EXCEPT ![idx] = "new"]
          /\ pc' = "validate"
          /\ UNCHANGED outcome
       \/ /\ batch.mode = "specified"
          /\ Raise("test_file")
          /\ UNCHANGED runner
    /\ UNCHANGED <<batch, idx, plugin_dirs, returncode, test_envs, results>>
    /\ UNCHANGED otherThanTests

\* PluginTestRunner.__call__, first statement: self.validate_plugin()
CallValidate ==
    /\ pc = "validate"
    /\ \E d \in PluginDirStates :
        /\ plugin_dirs' = [plugin_dirs EXCEPT ![idx] = d]
        /\ IF validate_plugin(d) = "ok"
           THEN /\ runner' = [runner EXCEPT ![idx] = "validated"]
                /\ pc' = "run_tests"
                /\ UNCHANGED outcome
           ELSE /\ runner' = [runner EXCEPT ![idx] = "raised"]
                /\ Raise("validate_plugin")
    /\ UNCHANGED <<batch, idx, returncode, test_envs, results>>
    /\ UNCHANGED otherThanTests

\* PluginTestRunner.__call__, second statement: self.run_tests().
\* run_in_env hands back a completed process, whose return code run_tests stores
\* (check.equal only registers a failure), or it raises.
CallRunTests ==
    /\ pc = "run_tests"
    /\ \/ \E rc \in ReturnCodes :
            /\ test_envs' = [test_envs EXCEPT ![idx] = EnvAfterRunInEnv(FALSE)]
            /\ returncode' = [returncode EXCEPT ![idx] = rc]
            /\ runner' = [runner EXCEPT ![idx] = "ran"]
            /\ pc' = "teardown"
            /\ UNCHANGED outcome
       \/ /\ test_envs' = [test_envs EXCEPT ![idx] = EnvAfterRunInEnv(TRUE)]
          /\ runner' = [runner EXCEPT ![idx] = "raised"]
          /\ Raise("run_in_env")
          /\ UNCHANGED returncode
    /\ UNCHANGED <<batch, idx, plugin_dirs, results>>
    /\ UNCHANGED otherThanTests

\* Faulty variant: __call__ returns after run_tests without tearing down.
CallWithoutTeardown ==
    /\ pc = "teardown"
    /\ runner' = [runner EXCEPT ![idx] = "returned"]
    /\ pc' = "record"
    /\ UNCHANGED <<batch, idx, plugin_dirs, returncode, test_envs, results, outcome>>
    /\ UNCHANGED otherThanTests

\* PluginTestRunner.__call__, third statement: self.teardown(); the call returns.
CallTeardown ==
    /\ pc = "teardown"
    /\ test_envs' = [test_envs EXCEPT ![idx] = EnvAfterTeardown]
    /\ runner' = [runner EXCEPT ![idx] = "returned"]
    /\ pc' = "record"
    /\ UNCHANGED <<batch, idx, plugin_dirs, returncode, results, outcome>>
    /\ UNCHANGED otherThanTests

\* results[plugin_test_runner.plugin_name] = plugin_test_runner.returncode:
\* run_all_tests adds the entry to its dict; run_specified_tests returns a dict of
\* this one entry, which run_args assigns to results.
Recorded(res, mode, i, rc) ==
    IF mode = "all" THEN [k \in DOMAIN res \cup {i} |-> IF k = i THEN rc ELSE res[k]]
    ELSE [k \in {i} |-> rc]

\* Faulty variant: a failing return code ends the loop over the batch.
AfterRecordStopOnFailure(i, rc) ==
    IF i < batch.size /\ rc \in {0, 5} THEN "next" ELSE "aggregate"

\* The loop goes on with the next item, or ends after the last one.
AfterRecord(i, rc) ==
    IF i < batch.size THEN "next" ELSE "aggregate"

\* The return code of the item's runner is recorded and the loop advances.
RecordResult ==
    /\ pc = "record"
    /\ results' = IF runner[idx] = "skipped" THEN results
                  ELSE Recorded(results, batch.mode, idx, returncode[idx])
    /\ pc' = AfterRecord(idx, returncode[idx])
    /\ idx' = IF pc' = "next" THEN idx + 1 ELSE idx
    /\ UNCHANGED <<batch, plugin_dirs, runner, returncode, test_envs, outcome>>
    /\ UNCHANGED otherThanTests

\* plugins_with_errors = {k: v for k, v in results.items() if (v != 0) and (v != 5)}
PluginsWithErrors(res) ==
    [k \in {j \in DOMAIN res : res[j] # 0 /\ res[j] # 5} |-> res[k]]

\* The end of run_args: assert num_plugins_failed == 0.
Aggregate ==
    /\ pc = "aggregate"
    /\ pc' = "done"
    /\ outcome' = IF Cardinality(DOMAIN PluginsWithErrors(results)) = 0
                  THEN [kind |-> "returned", cause |-> "", errors |-> <<>>]
                  ELSE [kind |-> "raised", cause |-> "plugin tests failed",
                        errors |-> PluginsWithErrors(results)]
    /\ UNCHANGED <<batch, idx, plugin_dirs, runner, returncode, test_envs, results>>
    /\ UNCHANGED otherThanTests

TestNext ==
    \/ RunArgs \/ SkipPlugin \/ NewRunner \/ CallValidate \/ CallRunTests
    \/ CallTeardown \/ RecordResult \/ Aggregate

(***************************************************************************)
(* conda_score: CondaScore and wrap_score.  A score moves from the child   *)
(* process of the scoring environment to its parent through one file.      *)
(***************************************************************************)

\* Number of scoring runs that may be in flight at once.
MaxRuns == 2
RunIds == 1..MaxRuns

\* Paths are sequences of segments, a segment is a sequence of tokens.
\* The library path is the path of the library's __init__.py.
LibraryPaths ==
    { << <<"home">>, <<"brainscore_vision">>, <<"__init__.py">> >>,
      << <<"brainscore_vision">>, <<"__init__.py">> >>,
      << <<"__init__.py">> >> }

\* pathlib's Path.parent: the path without its last segment; the parent of the
\* empty relative path (".") is that path itself.
Parent(path) == IF Len(path) = 0 THEN path ELSE SubSeq(path, 1, Len(path) - 1)

\* Plugin identifiers are strings, modelled as sequences of characters.
ModelIdentifiers == { <<"a">>, <<"a", "_", "b">> }
BenchmarkIdentifiers == { <<"c">>, <<"b", "_", "c">> }

\* CondaScore.__init__: self.env_name = f'{self.model}_{self.benchmark}'
EnvName(model_identifier, benchmark_identifier) ==
    model_identifier \o <<"_">> \o benchmark_identifier

\* Faulty variant: the file name of the score file does not carry the environment name.
ScorePathWithoutEnvName(library_path, env_name) ==
    Append(Parent(library_path), <<"conda_score--", ".pkl">>)

\* CondaScore._score_path: library_path.parent / f'conda_score--{env_name}.pkl'
ScorePath(library_path, env_name) ==
    Append(Parent(library_path), <<"conda_score--">> \o env_name \o <<".pkl">>)

\* Faulty variant: the parent keeps the path of __init__.py instead of its directory.
CondaScoreLibraryPathNoParent(library_path) == library_path

\* CondaScore.__init__: self.library_path = library_path.parent
CondaScoreLibraryPath(library_path) == Parent(library_path)

\* Faulty variant: save_score hands the path of __init__.py itself to _score_path.
SaveScorePathNoParent(library_path, env_name) == ScorePath(library_path, env_name)

\* CondaScore.save_score: score_path = CondaScore._score_path(library_path.parent, env_name)
SaveScorePath(library_path, env_name) == ScorePath(Parent(library_path), env_name)

\* CondaScore.consume_score: score_path = CondaScore._score_path(library_path, env_name)
ConsumeScorePath(library_path, env_name) == ScorePath(library_path, env_name)

\* Score values: a center and attributes (raw, ceiling, ...).
Scores ==
    { [center |-> 42, attrs |-> <<>>],
      [center |-> 80, attrs |-> << <<"ceiling", 35>> >>],
      [center |-> 80, attrs |-> << <<"raw", 7>>, <<"ceiling", 35>> >>] }

NoScore == [center |-> -1, attrs |-> <<>>]

RECURSIVE Flatten(_)
Flatten(pairs) ==
    IF pairs = <<>> THEN <<>> ELSE Head(pairs) \o Flatten(Tail(pairs))

\* pickle.dump(score, f, pickle.HIGHEST_PROTOCOL): the bytes written.
Pickle(score) ==
    <<"PROTO", "Score", score.center, Len(score.attrs)>> \o Flatten(score.attrs) \o <<"STOP">>

\* Whether pickle.load can read the bytes (an empty or cut file raises EOFError).
Loadable(data) ==
    /\ Len(data) >= 5
    /\ data[1] = "PROTO"
    /\ data[Len(data)] = "STOP"
    /\ Len(data) = 5 + 2 * data[4]

\* pickle.load(f): the object read back.
Unpickle(data) ==
    [center |-> data[3],
     attrs |-> [k \in 1..data[4] |-> <<data[3 + 2 * k], data[4 + 2 * k]>>]]

\* The file system: a set of files [path, data, writer]; writer is the run whose
\* process wrote the file (kept for the statements about who reads whose score).
Exists(fs, path) == \E f \in fs : f.path = path
FileAt(fs, path) == CHOOSE f \in fs : f.path = path
\* open(path, 'wb'): the file exists and is empty.
Truncated(fs, path, who) ==
    {f \in fs : f.path # path} \cup {[path |-> path, data |-> <<>>, writer |-> who]}
Written(fs, path, data, who) ==
    {f \in fs : f.path # path} \cup {[path |-> path, data |-> data, writer |-> who]}
\* os.remove(path)
Removed(fs, path) == {f \in fs : f.path # path}

\* ---------------------------------------------------------------- runs

\* The inputs of the concurrent scoring runs: a library installed in a directory
\* and one in the working directory, two models, two benchmarks; the score
\* function gives each model its score.
RunLibraryPaths ==
    { << <<"home">>, <<"brainscore_vision">>, <<"__init__.py">> >>, << <<"__init__.py">> >> }
RunModelIdentifiers == ModelIdentifiers
RunBenchmarkIdentifiers == BenchmarkIdentifiers
score_function(model_identifier, benchmark_identifier) ==
    IF model_identifier = <<"a">>
    THEN [center |-> 42, attrs |-> <<>>]
    ELSE [center |-> 80, attrs |-> << <<"ceiling", 35>> >>]

NoRun ==
    [pc |-> "idle", library_path |-> <<>>, model |-> <<>>, benchmark |-> <<>>,
     pref |-> "", conda_active |-> FALSE, env |-> "absent",
     rc |-> 0, score |-> NoScore, result |-> NoScore, cause |-> "",
     read_from |-> 0, reads |-> 0, removes |-> 0]

ScoreInit ==
    /\ files = {}
    /\ runs = [r \in RunIds |-> NoRun]

\* Values of BS_INSTALL_DEPENDENCIES that installation_preference() accepts.
PrefOptions == {"yes", "no", "newenv"}

\* The path the process of run r writes its score to (save_score, called with the
\* library path and the environment name by wrap_score).
WritePath(run) ==
    SaveScorePath(run.library_path, EnvName(run.model, run.benchmark))

\* The path the parent of run r reads (CondaScore.__call__ calls consume_score
\* with self.library_path and self.env_name).
ReadPath(run) ==
    ConsumeScorePath(CondaScoreLibraryPath(run.library_path),
                     EnvName(run.model, run.benchmark))

\* Faulty variant: 'newenv' alone selects the new environment.
WrapScoreBranchIgnoreCondaActive(pref, conda_active) ==
    IF pref = "newenv" THEN "score_in_env" ELSE "score_function"

\* wrap_score: if installation_preference() == 'newenv' and not conda_active
\* the scoring is handed to a CondaScore, else it is done in this process.
WrapScoreBranch(pref, conda_active) ==
    IF pref = "newenv" /\ ~conda_active THEN "score_in_env" ELSE "score_function"

\* wrap_score is called by the user of the library, in no scoring environment.
WrapScore ==
    \E r \in RunIds :
        /\ runs[r].pc = "idle"
        /\ \E L \in RunLibraryPaths, m \in RunModelIdentifiers,
              b \in RunBenchmarkIdentifiers, pref \in PrefOptions :
            runs' = [runs EXCEPT ![r] =
                [@ EXCEPT !.library_path = L, !.model = m, !.benchmark = b,
                          !.pref = pref, !.conda_active = FALSE,
                          !.pc = WrapScoreBranch(pref, FALSE)]]
        /\ UNCHANGED files
        /\ UNCHANGED otherThanRuns

\* CondaScore.score_in_env calls run_in_env: the command starts the child process
\* in the new environment, which calls wrap_score with conda_active set; or the
\* child fails before it scores; or run_in_env itself raises.
RunInEnv ==
    \E r \in RunIds :
        /\ runs[r].pc = "score_in_env"
        /\ \/ runs' = [runs EXCEPT ![r].env = EnvAfterRunInEnv(FALSE), ![r].conda_active = TRUE,
                                   ![r].pc = WrapScoreBranch(runs[r].pref, TRUE)]
           \/ runs' = [runs EXCEPT ![r].env = EnvAfterRunInEnv(FALSE), ![r].rc = 1,
                                   ![r].pc = "check_returncode"]
           \/ runs' = [runs EXCEPT ![r].env = EnvAfterRunInEnv(TRUE), ![r].pc = "raised",
                                   ![r].cause = "run_in_env"]
        /\ UNCHANGED files
        /\ UNCHANGED otherThanRuns

\* result = score_function(model_identifier, benchmark_identifier)
ScoreFunction ==
    \E r \in RunIds :
        /\ runs[r].pc = "score_function"
        /\ runs' = [runs EXCEPT ![r].score = score_function(runs[r].model, runs[r].benchmark),
                                ![r].pc = "save_open"]
        /\ UNCHANGED files
        /\ UNCHANGED otherThanRuns

\* CondaScore.save_score: open(score_path, 'wb')
SaveOpen ==
    \E r \in RunIds :
        /\ runs[r].pc = "save_open"
        /\ files' = Truncated(files, WritePath(runs[r]), r)
        /\ runs' = [runs EXCEPT ![r].pc = "save_dump"]
        /\ UNCHANGED otherThanRuns

\* CondaScore.save_score: pickle.dump; wrap_score then returns the result.  In a
\* child process the process ends, with a return code.
SaveDump ==
    \E r \in RunIds :
        /\ runs[r].pc = "save_dump"
        /\ files' = Written(files, WritePath(runs[r]), Pickle(runs[r].score), r)
        /\ IF runs[r].conda_active
           THEN \E rc \in {0, 1} :
                    runs' = [runs EXCEPT ![r].conda_active = FALSE, ![r].rc = rc,
                                         ![r].pc = "check_returncode"]
           ELSE runs' = [runs EXCEPT ![r].result = runs[r].score, ![r].pc = "returned"]
        /\ UNCHANGED otherThanRuns

\* Faulty variant: score_in_env does not check the return code.
AfterReturncodeUnchecked(rc) == "consume_load"

\* CondaScore.score_in_env: completed_process.check_returncode() raises
\* CalledProcessError for a non-zero return code.
AfterReturncode(rc) == IF rc # 0 THEN "raised" ELSE "consume_load"

CheckReturncode ==
    \E r \in RunIds :
        /\ runs[r].pc = "check_returncode"
        /\ runs' = [runs EXCEPT
                ![r].pc = AfterReturncode(runs[r].rc),
                ![r].cause = IF AfterReturncode(runs[r].rc) = "raised"
                             THEN "CalledProcessError" ELSE @]
        /\ UNCHANGED files
        /\ UNCHANGED otherThanRuns

\* CondaScore.consume_score: open(score_path, 'rb') and pickle.load(f)
ConsumeLoad ==
    \E r \in RunIds :
        /\ runs[r].pc = "consume_load"
        /\ IF ~Exists(files, ReadPath(runs[r]))
           THEN runs' = [runs EXCEPT ![r].pc = "raised", ![r].cause = "FileNotFoundError"]
           ELSE LET f == FileAt(files, ReadPath(runs[r]))
                IN  IF ~Loadable(f.data)
                    THEN runs' = [runs EXCEPT ![r].pc = "raised", ![r].cause = "EOFError",
                                              ![r].reads = @ + 1]
                    ELSE runs' = [runs EXCEPT ![r].result = Unpickle(f.data),
                                              ![r].read_from = f.writer,
                                              ![r].reads = @ + 1,
                                              ![r].pc = "consume_remove"]
        /\ UNCHANGED files
        /\ UNCHANGED otherThanRuns

\* CondaScore.consume_score: os.remove(score_path); return score
ConsumeRemove ==
    \E r \in RunIds :
        /\ runs[r].pc = "consume_remove"
        /\ IF ~Exists(files, ReadPath(runs[r]))
           THEN /\ runs' = [runs EXCEPT ![r].pc = "raised", ![r].cause = "FileNotFoundError",
                                        ![r].result = NoScore]
                /\ UNCHANGED files
           ELSE /\ files' = Removed(files, ReadPath(runs[r]))
                /\ runs' = [runs EXCEPT ![r].pc = "returned", ![r].removes = @ + 1]
        /\ UNCHANGED otherThanRuns

ScoreNext ==
    \/ WrapScore \/ RunInEnv \/ ScoreFunction \/ SaveOpen \/ SaveDump
    \/ CheckReturncode \/ ConsumeLoad \/ ConsumeRemove

\* consume_score as one call: the files left, how the call ended, the score returned.
consume_score(fs, library_path, env_name) ==
    LET score_path == ConsumeScorePath(library_path, env_name)
    IN  IF ~Exists(fs, score_path)
        THEN [files |-> fs, outcome |-> "FileNotFoundError", score |-> NoScore]
        ELSE IF ~Loadable(FileAt(fs, score_path).data)
        THEN [files |-> fs, outcome |-> "EOFError", score |-> NoScore]
        ELSE [files |-> Removed(fs, score_path), outcome |-> "returned",
              score |-> Unpickle(FileAt(fs, score_path).data)]

\* save_score as one call: the files left.
save_score(fs, score, library_path, env_name) ==
    Written(fs, SaveScorePath(library_path, env_name), Pickle(score), 0)

\* ---- save_score followed by consume_score in one process
\*      (tests/test_plugin_management/test_conda_score.py, test_save_and_consume_score)

RtIdle ==
    [phase |-> "idle", score |-> NoScore, library_path |-> <<>>, env_name |-> <<>>,
     outcome |-> "", result |-> NoScore]

RtInit ==
    rt \in [phase : {"start"}, score : Scores, library_path : LibraryPaths,
            env_name : {EnvName(m, b) : m \in ModelIdentifiers, b \in BenchmarkIdentifiers},
            outcome : {""}, result : {NoScore}]

\* CondaScore.save_score(score, library_path=library_path, env_name=env_name)
RtSaveScore ==
    /\ rt.phase = "start"
    /\ files' = save_score(files, rt.score, rt.library_path, rt.env_name)
    /\ rt' = [rt EXCEPT !.phase = "saved"]
    /\ UNCHANGED otherThanRt

\* CondaScore.consume_score(library_path=library_path.parent, env_name=env_name),
\* a first and a second time.
RtConsumeScore ==
    /\ rt.phase \in {"saved", "consumed"}
    /\ LET c == consume_score(files, Parent(rt.library_path), rt.env_name)
       IN  /\ files' = c.files
           /\ rt' = [rt EXCEPT !.phase = IF rt.phase = "saved" THEN "consumed" ELSE "consumed_again",
                               !.outcome = c.outcome, !.result = c.score]
    /\ UNCHANGED otherThanRt

RtNext == RtSaveScore \/ RtConsumeScore

(***************************************************************************)
(* One interpreter: it sets BS_INSTALL_DEPENDENCIES, imports plugins and   *)
(* scores, one call after the other.  Each call is taken as a whole.       *)
(***************************************************************************)

\* Number of import_plugin / wrap_score calls of the process.
MaxCalls == 3

\* Values of the environment variable; Unset: the variable is not set.
Unset == "unset"
EnvValues == {Unset, "yes", "no", "newenv", "maybe"}

\* installation_preference(): os.getenv('BS_INSTALL_DEPENDENCIES', 'yes') and the
\* assertion that the value is one of pref_options.
installation_preference(env_var) ==
    LET pref == IF env_var = Unset THEN "yes" ELSE env_var
    IN  IF pref \in PrefOptions THEN [outcome |-> "returned", pref |-> pref]
        ELSE [outcome |-> "AssertionError", pref |-> pref]

\* The models directory of the library: one plugin registering 'alexnet', a
\* __pycache__-like directory; 'resnet' is registered nowhere.
LibraryModels ==
    << [name |-> <<"a", "l", "e", "x">>, is_dir |-> TRUE, has_init |-> TRUE,
        init |-> << <<"from", ".model", "import", "f">>,
                    <<"model_registry", "[", "'", "alexnet", "'", "]", "=", "f">> >>],
       [name |-> <<"_", "_", "p", "y">>, is_dir |-> TRUE, has_init |-> FALSE, init |-> <<>>] >>

\* What the plugin directory holds: setup.py, requirements.txt, and whether the
\* plugin's module imports its dependency when it is imported.
PluginContents ==
    [has_setup : BOOLEAN, has_requirements : BOOLEAN, imports_dependency : BOOLEAN]

\* Return codes of a pip run.
PipReturnCodes == {0, 1}

\* ImportPlugin.install_requirements: pip runs for setup.py and for
\* requirements.txt in the current interpreter; the completed processes are
\* dropped.  site: the plugins whose dependency the interpreter can import.
install_requirements(site, plugin_dirname, d, rc_setup, rc_requirements) ==
    [site |-> IF (d.has_setup /\ rc_setup = 0) \/ (d.has_requirements /\ rc_requirements = 0)
              THEN site \cup {plugin_dirname} ELSE site,
     pip_runs |-> (IF d.has_setup THEN 1 ELSE 0) + (IF d.has_requirements THEN 1 ELSE 0),
     pip_failed |-> (d.has_setup /\ rc_setup # 0) \/ (d.has_requirements /\ rc_requirements # 0)]

\* import_plugin: if installation_preference() != 'no'
InstallsRequirements(pref) == pref # "no"

\* __import__(f'{library_root}.{plugin_type}.{importer.plugin_dirname}')
ImportModule(site, plugin_dirname, d) ==
    IF d.imports_dependency /\ plugin_dirname \notin site
    THEN "ModuleNotFoundError" ELSE "returned"

\* import_plugin as one call: the site-packages left, the pip runs, how it ended.
import_plugin(env_var, site, identifier, d, rc_setup, rc_requirements) ==
    LET importer == locate_plugin(LibraryModels, "model_registry", identifier)
        p == installation_preference(env_var)
        i == install_requirements(site, importer.dirname, d, rc_setup, rc_requirements)
    IN  IF importer.outcome # "returned"
        THEN [site |-> site, pip_runs |-> 0, pip_failed |-> FALSE, outcome |-> "AssertionError"]
        ELSE IF p.outcome # "returned"
        THEN [site |-> site, pip_runs |-> 0, pip_failed |-> FALSE, outcome |-> "AssertionError"]
        ELSE IF InstallsRequirements(p.pref)
        THEN [site |-> i.site, pip_runs |-> i.pip_runs, pip_failed |-> i.pip_failed,
              outcome |-> ImportModule(i.site, importer.dirname, d)]
        ELSE [site |-> site, pip_runs |-> 0, pip_failed |-> FALSE,
              outcome |-> ImportModule(site, importer.dirname, d)]

\* How the scoring command of a CondaScore may go: the child scores and ends with
\* 0, scores and ends with 1, ends with 1 before it scores, or run_in_env raises.
ChildOutcomes == {"scored_0", "scored_1", "failed_1", "raised"}

\* CondaScore(...)() as one call.  The child process inherits the environment
\* variable and calls wrap_score with conda_active set.
conda_score(fs, env_var, library_path, model, benchmark, child) ==
    LET env_name == EnvName(model, benchmark)
        scores == child \in {"scored_0", "scored_1"}
                  /\ WrapScoreBranch(installation_preference(env_var).pref, TRUE) = "score_function"
        fs1 == IF scores
               THEN save_score(fs, score_function(model, benchmark), library_path, env_name)
               ELSE fs
        c == consume_score(fs1, CondaScoreLibraryPath(library_path), env_name)
    IN  IF child = "raised"
        THEN [files |-> fs, outcome |-> "run_in_env", result |-> NoScore,
              env |-> EnvAfterRunInEnv(TRUE), calls |-> 0]
        ELSE IF AfterReturncode(IF child = "scored_0" /\ scores THEN 0 ELSE 1) = "raised"
        THEN [files |-> fs1, outcome |-> "CalledProcessError", result |-> NoScore,
              env |-> EnvAfterRunInEnv(FALSE), calls |-> 0]
        ELSE [files |-> c.files, outcome |-> c.outcome, result |-> c.score,
              env |-> EnvAfterRunInEnv(FALSE), calls |-> 0]

\* wrap_score as one call: the files left, how it ended, the result, the state of
\* the environment it created (if any), the calls of score_function it made itself.
wrap_score(fs, env_var, library_path, model, benchmark, conda_active, child) ==
    LET p == installation_preference(env_var)
    IN  IF p.outcome # "returned"
        THEN [files |-> fs, outcome |-> "AssertionError", result |-> NoScore,
              env |-> "absent", calls |-> 0]
        ELSE IF WrapScoreBranch(p.pref, conda_active) = "score_in_env"
        THEN conda_score(fs, env_var, library_path, model, benchmark, child)
        ELSE [files |-> save_score(fs, score_function(model, benchmark), library_path,
                                   EnvName(model, benchmark)),
              outcome |-> "returned", result |-> score_function(model, benchmark),
              env |-> "absent", calls |-> 1]

NoCall ==
    [op |-> "none", env_var |-> Unset, identifier |-> "", contents |-> {},
     library_path |-> <<>>, model |-> <<>>, benchmark |-> <<>>, conda_active |-> FALSE,
     pip_runs |-> 0, pip_failed |-> FALSE, env |-> "absent", calls |-> 0,
     outcome |-> "", result |-> NoScore]

ProcIdle == [env_var |-> Unset, site |-> {}, ncalls |-> 0, call |-> NoCall]

\* os.environ['BS_INSTALL_DEPENDENCIES'] = value, or the variable is removed.
SetEnv ==
    /\ \E v \in EnvValues :
        /\ v # proc.env_var
        /\ proc' = [proc EXCEPT !.env_var = v]
    /\ UNCHANGED files
    /\ UNCHANGED otherThanProc

\* import_plugin('brainscore_dummy', 'models', identifier)
ImportPluginCall ==
    /\ proc.ncalls < MaxCalls
    /\ \E identifier \in Identifiers, d \in PluginContents,
          rc_setup \in PipReturnCodes, rc_requirements \in PipReturnCodes :
        LET r == import_plugin(proc.env_var, proc.site, identifier, d, rc_setup, rc_requirements)
        IN  proc' = [proc EXCEPT
                !.site = r.site,
                !.ncalls = @ + 1,
                !.call = [NoCall EXCEPT !.op = "import_plugin", !.env_var = proc.env_var,
                                        !.identifier = identifier, !.contents = {d},
                                        !.pip_runs = r.pip_runs, !.pip_failed = r.pip_failed,
                                        !.outcome = r.outcome]]
    /\ UNCHANGED files
    /\ UNCHANGED otherThanProc

\* wrap_score(library_path, model_identifier, benchmark_identifier, score_function,
\*            conda_active)
WrapScoreCall ==
    /\ proc.ncalls < MaxCalls
    /\ \E L \in RunLibraryPaths, m \in RunModelIdentifiers, b \in RunBenchmarkIdentifiers,
          conda_active \in BOOLEAN, child \in ChildOutcomes :
        LET r == wrap_score(files, proc.env_var, L, m, b, conda_active, child)
        IN  /\ files' = r.files
            /\ proc' = [proc EXCEPT
                    !.ncalls = @ + 1,
                    !.call = [NoCall EXCEPT !.op = "wrap_score", !.env_var = proc.env_var,
                                            !.library_path = L, !.model = m, !.benchmark = b,
                                            !.conda_active = conda_active,
                                            !.env = r.env, !.calls = r.calls,
                                            !.outcome = r.outcome, !.result = r.result]]
    /\ UNCHANGED otherThanProc

ProcNext == SetEnv \/ ImportPluginCall \/ WrapScoreCall

(***************************************************************************)
(* submission.endpoints: RunScoringEndpoint scores one model/benchmark      *)
(* pair per call and writes the outcome to the database.                    *)
(***************************************************************************)

\* Number of calls of the endpoint.
MaxEndpointCalls == 3

\* Score.comment = CharField(null=True, max_length=1_000)
CommentMaxLength == 1000

\* spacer = '[...]'; the characters of a text are positive numbers, those of the
\* spacer negative ones.
Spacer == <<-1, -2, -2, -2, -3>>

\* text[:stop]
SliceTo(text, stop) ==
    IF stop >= 0
    THEN SubSeq(text, 1, IF stop < Len(text) THEN stop ELSE Len(text))
    ELSE SubSeq(text, 1, IF Len(text) + stop > 0 THEN Len(text) + stop ELSE 0)

\* text[start:]
SliceFrom(text, start) ==
    IF start >= 0
    THEN SubSeq(text, start + 1, Len(text))
    ELSE SubSeq(text, (IF Len(text) + start > 0 THEN Len(text) + start ELSE 0) + 1, Len(text))

\* shorten_text(text, max_length)
shorten_text(text, max_length) ==
    IF Len(text) <= max_length THEN text
    ELSE LET early_stop == max_length \div 2
             part1 == SliceTo(text, early_stop - Len(Spacer))
             part2 == SliceFrom(text, 0 - (max_length - early_stop))
         IN  part1 \o Spacer \o part2

\* The matrix of a submission: its models and benchmarks.
EndpointModels == {"dummymodel1"}
EndpointBenchmarks == {"dummybenchmark1", "dummybenchmark2"}
Pairs == EndpointModels \X EndpointBenchmarks

\* Lengths of the error message (message of the exception and stack trace).
MessageLengths == {40, 1000, 1001, 1500}

\* The error message of a failed scoring, each character named by its position.
ErrorMessage(length) == [k \in 1..length |-> k]

\* What scoring a pair may do: load_model or load_benchmark raises, the score
\* method raises, update_score raises after it set score_raw, or all succeed.
ScoringOutcomes ==
    [kind : {"load_model", "load_benchmark", "scored"}, length : {0}]
    \cup [kind : {"score"}, length : MessageLengths]
    \cup [kind : {"update_score"}, length : {40}]

NoComment == <<>>

\* A row that Score.get_or_create has not created yet.
NoScoreRow ==
    [exists |-> FALSE, model |-> "", benchmark |-> "", has_score_raw |-> FALSE,
     has_comment |-> FALSE, comment |-> NoComment]

\* Score.select().where(benchmark == ..., model == ...): the ids of the rows
ScoresOf(scores, model, benchmark) ==
    {i \in DOMAIN scores : scores[i].model = model /\ scores[i].benchmark = benchmark}

\* the first row of the pair, if it has one
ScoreEntry(scores, model, benchmark) ==
    IF ScoresOf(scores, model, benchmark) = {} THEN NoScoreRow
    ELSE scores[CHOOSE i \in ScoresOf(scores, model, benchmark) :
                    \A j \in ScoresOf(scores, model, benchmark) : i <= j]

\* Faulty variant: a row is created whether or not the pair has one.
CreateScore(scores, model, benchmark) ==
    [scores |-> Append(scores, [NoScoreRow EXCEPT !.exists = TRUE, !.model = model,
                                                  !.benchmark = benchmark]),
     id |-> Len(scores) + 1, created |-> TRUE]

\* Score.get_or_create(benchmark=benchmark_entry, model=model_entry, defaults=...)
GetOrCreateScore(scores, model, benchmark) ==
    IF ScoresOf(scores, model, benchmark) # {}
    THEN [scores |-> scores,
          id |-> CHOOSE i \in ScoresOf(scores, model, benchmark) :
                    \A j \in ScoresOf(scores, model, benchmark) : i <= j,
          created |-> FALSE]
    ELSE [scores |-> Append(scores, [NoScoreRow EXCEPT !.exists = TRUE, !.model = model,
                                                       !.benchmark = benchmark]),
          id |-> Len(scores) + 1, created |-> TRUE]

\* submissionentry_from_meta: Submission.create(..., status='running')
submissionentry_from_meta(submissions) == Append(submissions, "running")

\* Faulty variant: the error message is stored as it is.
WithErrorCommentUnshortened(row, length) ==
    [row EXCEPT !.has_comment = TRUE, !.comment = ErrorMessage(length)]

\* _score_model_on_benchmark, the except branch: the shortened error message is
\* the comment of the score entry, which is saved.
WithErrorComment(row, length) ==
    [row EXCEPT !.has_comment = TRUE,
                !.comment = shorten_text(ErrorMessage(length), CommentMaxLength)]

\* RunScoringEndpoint._score_model_on_benchmark: the database it leaves and
\* whether it raised.
score_model_on_benchmark(d, model, benchmark, submission, what) ==
    LET with_model == [d EXCEPT !.models = IF \E e \in d.models : e.name = model THEN @
                                           ELSE @ \cup {[name |-> model, submission |-> submission]}]
        got == GetOrCreateScore(d.scores, model, benchmark)
        row == got.scores[got.id]
        created == got.created
        entry == IF created THEN row
                 ELSE [row EXCEPT !.has_comment = FALSE, !.comment = NoComment]
        Saved(r) == [with_model EXCEPT !.scores = [got.scores EXCEPT ![got.id] = r]]
    IN  IF what.kind = "load_model" THEN [db |-> d, raised |-> TRUE, scored |-> FALSE]
        ELSE IF what.kind = "load_benchmark" THEN [db |-> with_model, raised |-> TRUE, scored |-> FALSE]
        ELSE IF ~created /\ row.has_score_raw
        THEN [db |-> with_model, raised |-> FALSE, scored |-> FALSE]
        ELSE IF what.kind = "score"
        THEN [db |-> Saved(WithErrorComment(entry, what.length)), raised |-> TRUE, scored |-> TRUE]
        ELSE IF what.kind = "update_score"
        THEN [db |-> Saved(WithErrorComment([entry EXCEPT !.has_score_raw = TRUE], what.length)),
              raised |-> TRUE, scored |-> TRUE]
        ELSE [db |-> Saved([entry EXCEPT !.has_score_raw = TRUE]), raised |-> FALSE, scored |-> TRUE]

\* Faulty variant: the status of the submission is not finalized.
SubmissionStatusLeftRunning(status, is_run_successful) == status

\* RunScoringEndpoint.__call__, "finalize status of submission".
SubmissionStatus(status, is_run_successful) ==
    IF status # "failure"
    THEN (IF is_run_successful THEN "successful" ELSE "failure")
    ELSE status

EndpointInit ==
    /\ db = [submissions |-> <<>>, models |-> {}, scores |-> <<>>]
    /\ scoring = <<>>

\* RunScoringEndpoint.__call__ for one pair.  An exception of
\* _score_model_on_benchmark is caught; a failure of Submission.create is not.
RunScoring ==
    /\ Len(scoring) < MaxEndpointCalls
    /\ \E p \in Pairs, what \in ScoringOutcomes :
        LET submissions == submissionentry_from_meta(db.submissions)
            id == Len(submissions)
            r == score_model_on_benchmark([db EXCEPT !.submissions = submissions],
                                          p[1], p[2], id, what)
        IN  /\ db' = [r.db EXCEPT !.submissions[id] = SubmissionStatus(@, ~r.raised)]
            /\ scoring' = Append(scoring,
                    [pair |-> p, what |-> what, raised |-> r.raised, scored |-> r.scored,
                     outcome |-> "returned",
                     before |-> ScoreEntry(db.scores, p[1], p[2]),
                     after |-> ScoreEntry(r.db.scores, p[1], p[2])])
    /\ UNCHANGED otherThanEndpoint

EndpointNext == RunScoring

(***************************************************************************)
(* plugin_management.parse_plugin_changes: the changed files of a pull      *)
(* request are sorted into plugin files, non-plugin files and               *)
(* plugin-related files.  A path is a sequence of segments, a segment a     *)
(* sequence of word parts, so that `in`, strip and == can be evaluated.     *)
(***************************************************************************)

\* Number of changed files of a pull request.
MaxFiles == 3

\* PLUGIN_DIRS = ['models', 'benchmarks', 'data', 'metrics']
PLUGIN_DIRS == << <<"model", "s">>, <<"benchmark", "s">>, <<"data">>, <<"metric", "s">> >>

\* SPECIAL_PLUGIN_FILES
SPECIAL_PLUGIN_FILES ==
    << << <<"brainscore_vision">>, <<"model", "_interface.py">> >>,
       << <<"brainscore_language">>, <<"artificial_subject.py">> >> >>

\* The changed files explored.
ChangedPaths ==
    { << <<"brainscore_core">>, <<"model", "s">>, <<"dummy_", "model">>, <<"model", ".py">> >>,
      << <<"brainscore_core">>, <<"model", "s">>, <<"__init__.py">> >>,
      << <<"brainscore_core">>, <<"benchmark", "s">>, <<"dummy_", "benchmark">>, <<"__init__.py">> >>,
      << <<"brainscore_core">>, <<"data", "_helpers">>, <<"dummy_helper.py">> >>,
      << <<"brainscore_core">>, <<"README.md">> >>,
      << <<"brainscore_core">>, <<"data">>, <<"dummy_", "data">>, <<"data", ".py">> >>,
      << <<"brainscore_vision">>, <<"model", "_interface.py">> >>,
      << <<"brainscore_core">>, <<"metric", "s">>, <<"dummy_", "metric">> >>,
      << <<"brainscore_core">>, <<"model", "s">>, <<"fatal", "_", "model">>, <<"model", ".py">> >>,
      << <<"brainscore_core">>, <<"metric", "s">>, <<"meta", "data", ".py">> >> }

\* The changed paths that are directories (os.path.isdir).
Directories ==
    { << <<"brainscore_core">>, <<"metric", "s">>, <<"dummy_", "metric">> >> }

\* The domain root the changes are parsed for.
DomainRoot == <<"brainscore_core">>

Range(seq) == {seq[k] : k \in DOMAIN seq}

\* '/'.join(segments): the path as one string.
RECURSIVE PathString(_)
PathString(f) ==
    IF f = <<>> THEN <<>>
    ELSE IF Len(f) = 1 THEN f[1]
    ELSE f[1] \o <<"/">> \o PathString(Tail(f))

\* " ".join(files): the changed files as one string.
RECURSIVE ChangedFilesString(_)
ChangedFilesString(file_list) ==
    IF file_list = <<>> THEN <<>>
    ELSE IF Len(file_list) = 1 THEN PathString(file_list[1])
    ELSE PathString(file_list[1]) \o <<" ">> \o ChangedFilesString(Tail(file_list))

\* name.strip('s')
RECURSIVE StripS(_)
StripS(name) ==
    IF name # <<>> /\ Head(name) = "s" THEN StripS(Tail(name))
    ELSE IF name # <<>> /\ name[Len(name)] = "s" THEN StripS(SubSeq(name, 1, Len(name) - 1))
    ELSE name

\* subdir when the path has one segment only (None).
NoSubdir == <<>>

\* Faulty variant: a file directly in a plugin-type directory counts as a plugin file.
SeparateStepWithoutRelated(acc, f, dirs) ==
    LET subdir == IF Len(f) > 1 THEN f[2] ELSE NoSubdir
    IN  IF \E i \in DOMAIN PLUGIN_DIRS : PLUGIN_DIRS[i] = subdir
        THEN [acc EXCEPT !.plugin_files = Append(@, f)]
        ELSE IF \E i \in DOMAIN PLUGIN_DIRS : StripS(PLUGIN_DIRS[i]) \o <<"_helpers">> = subdir
        THEN [acc EXCEPT !.plugin_related_files = Append(@, f)]
        ELSE IF \E i \in DOMAIN SPECIAL_PLUGIN_FILES : SPECIAL_PLUGIN_FILES[i] = f
        THEN [acc EXCEPT !.plugin_related_files = Append(@, f)]
        ELSE [acc EXCEPT !.non_plugin_files = Append(@, f)]

\* separate_plugin_files, one iteration of its loop over the files.
SeparateStep(acc, f, dirs) ==
    LET subdir == IF Len(f) > 1 THEN f[2] ELSE NoSubdir
    IN  IF \E i \in DOMAIN PLUGIN_DIRS : PLUGIN_DIRS[i] = subdir
        THEN IF Len(f) = 3 /\ f \notin dirs
             THEN [acc EXCEPT !.plugin_related_files = Append(@, f)]
             ELSE [acc EXCEPT !.plugin_files = Append(@, f)]
        ELSE IF \E i \in DOMAIN PLUGIN_DIRS : StripS(PLUGIN_DIRS[i]) \o <<"_helpers">> = subdir
        THEN [acc EXCEPT !.plugin_related_files = Append(@, f)]
        ELSE IF \E i \in DOMAIN SPECIAL_PLUGIN_FILES : SPECIAL_PLUGIN_FILES[i] = f
        THEN [acc EXCEPT !.plugin_related_files = Append(@, f)]
        ELSE [acc EXCEPT !.non_plugin_files = Append(@, f)]

RECURSIVE SeparateLoop(_, _, _)
SeparateLoop(acc, file_list, dirs) ==
    IF file_list = <<>> THEN acc
    ELSE SeparateLoop(SeparateStep(acc, Head(file_list), dirs), Tail(file_list), dirs)

\* separate_plugin_files(files)
separate_plugin_files(file_list, dirs) ==
    SeparateLoop([plugin_files |-> <<>>, non_plugin_files |-> <<>>,
                  plugin_related_files |-> <<>>], file_list, dirs)

\* get_plugin_paths(plugin_files, domain_root): plugin type -> plugin names
get_plugin_paths(plugin_files, domain_root) ==
    [i \in DOMAIN PLUGIN_DIRS |->
        {f[3] : f \in {g \in Range(plugin_files) :
                        Len(g) >= 3 /\ g[1] = domain_root /\ g[2] = PLUGIN_DIRS[i]}}]

\* [plugin_dir for plugin_dir in PLUGIN_DIRS if plugin_dir.strip('s') in f]
PluginTypeOf(f) ==
    SelectSeq(PLUGIN_DIRS, LAMBDA plugin_dir : Contains(StripS(plugin_dir), PathString(f)))

\* Faulty variant: the benchmarks are not added for data or metric changes.
WithBenchmarksNever(plugin_types_changed) == plugin_types_changed

\* plugin_types_to_test_all: if metric- or data-related files are changed, the
\* benchmarks are added.
WithBenchmarks(plugin_types_changed) ==
    IF (PLUGIN_DIRS[4] \in plugin_types_changed \/ PLUGIN_DIRS[3] \in plugin_types_changed)
       /\ PLUGIN_DIRS[2] \notin plugin_types_changed
    THEN plugin_types_changed \cup {PLUGIN_DIRS[2]}
    ELSE plugin_types_changed

\* plugin_types_to_test_all(plugin_related_files); the list returned is taken as a set.
plugin_types_to_test_all(plugin_related_files) ==
    IF \E f \in Range(plugin_related_files), i \in DOMAIN SPECIAL_PLUGIN_FILES :
            f = SPECIAL_PLUGIN_FILES[i]
    THEN [outcome |-> "returned", types |-> Range(PLUGIN_DIRS)]
    ELSE IF \E f \in Range(plugin_related_files) : Len(PluginTypeOf(f)) # 1
    THEN [outcome |-> "AssertionError", types |-> {}]
    ELSE [outcome |-> "returned",
          types |-> WithBenchmarks({PluginTypeOf(f)[1] : f \in Range(plugin_related_files)})]

\* Faulty variant: plugin-related files do not prevent the automerge.
IsAutomergeableIgnoringRelated(non_plugin_files, plugin_related_files) ==
    Len(non_plugin_files) = 0

\* plugin_info_dict["is_automergeable"]
IsAutomergeable(non_plugin_files, plugin_related_files) ==
    (Len(non_plugin_files) + Len(plugin_related_files)) = 0

NoInfo ==
    [modifies_plugins |-> FALSE, changed_plugins |-> <<>>, test_all_plugins |-> {},
     is_automergeable |-> FALSE]

\* parse_plugin_changes(changed_files, domain_root)
parse_plugin_changes(file_list, dirs, domain_root) ==
    LET sep == separate_plugin_files(file_list, dirs)
        test_all == plugin_types_to_test_all(sep.plugin_related_files)
    IN  IF file_list = <<>> THEN [outcome |-> "AssertionError", info |-> NoInfo]
        ELSE IF Contains(<<"fatal">>, ChangedFilesString(file_list))
        THEN [outcome |-> "AssertionError", info |-> NoInfo]
        ELSE IF test_all.outcome # "returned"
        THEN [outcome |-> "AssertionError", info |-> NoInfo]
        ELSE [outcome |-> "returned",
              info |-> [modifies_plugins |->
                            (Len(sep.plugin_files) + Len(sep.plugin_related_files)) # 0,
                        changed_plugins |-> get_plugin_paths(sep.plugin_files, domain_root),
                        test_all_plugins |-> test_all.types,
                        is_automergeable |->
                            IsAutomergeable(sep.non_plugin_files, sep.plugin_related_files)]]

NotParsed ==
    [op |-> "none", outcome |-> "", plugin_files |-> <<>>, non_plugin_files |-> <<>>,
     plugin_related_files |-> <<>>, types |-> {}, info |-> NoInfo]

ChangesInit ==
    /\ changed = <<>>
    /\ parsed = NotParsed

\* A file is changed by the pull request.
ChangeFile ==
    /\ parsed.op = "none"
    /\ Len(changed) < MaxFiles
    /\ \E f \in ChangedPaths \ Range(changed) : changed' = Append(changed, f)
    /\ UNCHANGED parsed
    /\ UNCHANGED otherThanChanges

\* separate_plugin_files(changed files)
SeparatePluginFiles ==
    /\ parsed.op = "none"
    /\ LET sep == separate_plugin_files(changed, Directories)
       IN  parsed' = [NotParsed EXCEPT !.op = "separate_plugin_files", !.outcome = "returned",
                                       !.plugin_files = sep.plugin_files,
                                       !.non_plugin_files = sep.non_plugin_files,
                                       !.plugin_related_files = sep.plugin_related_files]
    /\ UNCHANGED changed
    /\ UNCHANGED otherThanChanges

\* plugin_types_to_test_all on the plugin-related files of the changed files
PluginTypesToTestAll ==
    /\ parsed.op = "none"
    /\ LET sep == separate_plugin_files(changed, Directories)
           r == plugin_types_to_test_all(sep.plugin_related_files)
       IN  parsed' = [NotParsed EXCEPT !.op = "plugin_types_to_test_all", !.outcome = r.outcome,
                                       !.plugin_related_files = sep.plugin_related_files,
                                       !.types = r.types]
    /\ UNCHANGED changed
    /\ UNCHANGED otherThanChanges

\* parse_plugin_changes(" ".join(changed files), domain_root)
ParsePluginChanges ==
    /\ parsed.op = "none"
    /\ LET r == parse_plugin_changes(changed, Directories, DomainRoot)
       IN  parsed' = [NotParsed EXCEPT !.op = "parse_plugin_changes", !.outcome = r.outcome,
                                       !.info = r.info]
    /\ UNCHANGED changed
    /\ UNCHANGED otherThanChanges

ChangesNext == ChangeFile \/ SeparatePluginFiles \/ PluginTypesToTestAll \/ ParsePluginChanges

(***************************************************************************)
(* handle_metadata.validate_metadata_file                                  *)
(*                                                                         *)
(* A metadata file is a YAML document.  The model keeps its structure: the *)
(* kind of the top-level value and, for a mapping, its top-level keys, the *)
(* plugins under them, the keys of each plugin and the keys nested in the  *)
(* values that are mappings.  Scalar values are kept by their type only.   *)
(***************************************************************************)

MaxEntries == 5     \* keys written to the document before it is validated

ALLOWED_PLUGINS == {"models", "benchmarks"}

\* the value None of the table below: a key that has no nested keys
None == {}

ALLOWED_KEYS_BY_TYPE ==
    [models |->
        {"architecture", "model_family", "total_parameter_count",
         "trainable_parameter_count", "total_layers", "trainable_layers",
         "model_size_mb", "training_dataset", "task_specialization",
         "brainscore_link", "huggingface_link", "extra_notes", "runnable"},
     benchmarks |->
        [stimulus_set |->
            {"num_stimuli", "datatype", "stimuli_subtype", "total_size_mb",
             "brainscore_link", "extra_notes"},
         data |->
            {"benchmark_type", "task", "region", "hemisphere", "num_recording_sites",
             "duration_ms", "species", "datatype", "num_subjects", "pre_processing",
             "brainscore_link", "extra_notes", "data_publicly_available"},
         metric |->
            {"type", "reference", "public", "brainscore_link", "extra_notes",
             "description"},
         data_id |-> None,
         metric_id |-> None,
         data_overrides |->
            {"benchmark_type", "task", "region", "hemisphere", "num_recording_sites",
             "duration_ms", "species", "datatype", "num_subjects", "pre_processing",
             "brainscore_link", "extra_notes", "data_publicly_available"},
         metric_overrides |->
            {"type", "reference", "public", "brainscore_link", "extra_notes",
             "description"},
         stimulus_set_overrides |->
            {"num_stimuli", "datatype", "stimuli_subtype", "total_size_mb",
             "brainscore_link", "extra_notes"}]]

\* ---- the documents the model writes

TopLevelKeys == {"models", "benchmarks", "invalid"}

PluginNames == {"test-model"}

\* keys written under a plugin of the type
MetadataKeys(plugin_type) ==
    IF plugin_type = "benchmarks"
    THEN {"data", "data_id", "data_overrides", "extra_key"}
    ELSE {"architecture", "extra_key"}

NestedKeys == {"region", "extra_key"}

\* types of the values: a string or a mapping
ValueTypes == {"str", "dict"}

EmptyDocument ==
    [kind |-> "dict", types |-> {}, plugins |-> {}, keys |-> {}, nested |-> {}]

DocumentSize(data) ==
    Cardinality(data.types) + Cardinality(data.plugins)
        + Cardinality(data.keys) + Cardinality(data.nested)

\* metadata.items() of the plugin
MetadataItems(data, plugin_type, plugin_name) ==
    {k \in data.keys : k.plugin_type = plugin_type /\ k.plugin_name = plugin_name}

\* top_value.keys() of a value that is a mapping
NestedKeysOf(data, k) ==
    {n.nested_key : n \in {m \in data.nested : /\ m.plugin_type = k.plugin_type
                                                /\ m.plugin_name = k.plugin_name
                                                /\ m.key = k.key}}

\* ---- validate_metadata_file

MetadataError(message, plugin_type, plugin_name, key) ==
    [message |-> message, plugin_type |-> plugin_type, plugin_name |-> plugin_name,
     key |-> key]

EndsWithOverrides(top_key) ==
    top_key \in {"data_overrides", "metric_overrides", "stimulus_set_overrides"}

\* One pass of the loop over the items of a benchmark in the inheritance format.
InheritanceFormatErrors(data, k) ==
    LET allowed_keys == ALLOWED_KEYS_BY_TYPE.benchmarks
    IN  IF k.key \notin DOMAIN allowed_keys
        THEN {MetadataError("has invalid top-level key", k.plugin_type, k.plugin_name, k.key)}
        ELSE IF k.key \in {"data_id", "metric_id"}
        THEN IF k.value # "str"
             THEN {MetadataError("must be a string", k.plugin_type, k.plugin_name, k.key)}
             ELSE {}
        ELSE IF EndsWithOverrides(k.key) /\ k.value = "dict"
        THEN LET nested_allowed_keys == allowed_keys[k.key]
             IN  IF /\ nested_allowed_keys # {}
                    /\ NestedKeysOf(data, k) \ nested_allowed_keys # {}
                 THEN {MetadataError("has extra keys under", k.plugin_type,
                                     k.plugin_name, k.key)}
                 ELSE {}
        ELSE {}

\* One pass of the loop over the items of a benchmark in the legacy format.
LegacyFormatErrors(data, k) ==
    LET allowed_keys == ALLOWED_KEYS_BY_TYPE.benchmarks
    IN  IF k.key \notin DOMAIN allowed_keys
        THEN {MetadataError("has invalid top-level key", k.plugin_type, k.plugin_name, k.key)}
        ELSE IF k.value # "dict"
        THEN {MetadataError("must be a dictionary", k.plugin_type, k.plugin_name, k.key)}
        ELSE LET nested_allowed_keys == allowed_keys[k.key]
             IN  IF /\ nested_allowed_keys # None
                    /\ NestedKeysOf(data, k) \ nested_allowed_keys # {}
                 THEN {MetadataError("has extra keys under", k.plugin_type,
                                     k.plugin_name, k.key)}
                 ELSE {}

\* The body of the loop over plugin_data.items().
PluginErrors(data, p) ==
    LET metadata == MetadataItems(data, p.plugin_type, p.plugin_name)
    IN  IF ~p.is_dict
        THEN {MetadataError("must be a dictionary", p.plugin_type, p.plugin_name, "")}
        ELSE IF p.plugin_type = "benchmarks"
        THEN LET has_data_id == \E k \in metadata : k.key = "data_id"
                 has_metric_id == \E k \in metadata : k.key = "metric_id"
             IN  IF has_data_id \/ has_metric_id
                 THEN UNION {InheritanceFormatErrors(data, k) : k \in metadata}
                 ELSE UNION {LegacyFormatErrors(data, k) : k \in metadata}
        ELSE LET allowed_keys == ALLOWED_KEYS_BY_TYPE[p.plugin_type]
                 extra_keys == {k.key : k \in metadata} \ allowed_keys
             IN  IF extra_keys # {}
                 THEN {MetadataError("has extra keys", p.plugin_type, p.plugin_name, "")}
                 ELSE {}

\* The body of the loop over the top-level keys.
PluginTypeErrors(data, t) ==
    IF t.plugin_type \in ALLOWED_PLUGINS
    THEN IF ~t.is_dict
         THEN {MetadataError("value must be a dictionary keyed by plugin names",
                             t.plugin_type, "", "")}
         ELSE UNION {PluginErrors(data, p) :
                        p \in {q \in data.plugins : q.plugin_type = t.plugin_type}}
    ELSE {MetadataError("Top-level key is not allowed", t.plugin_type, "", "")}

\* validate_metadata_file: the errors, and whether the loaded data is returned
validate_metadata_file(metadata_file_content) ==
    LET data == metadata_file_content
    IN  IF data.kind = "unreadable"
        THEN [errors |-> {MetadataError("YAML parsing error", "", "", "")}, data |-> FALSE]
        ELSE IF data.kind # "dict"
        THEN [errors |-> {MetadataError("Top-level structure must be a dictionary.",
                                        "", "", "")},
              data |-> FALSE]
        ELSE LET found_plugin_type == \E t \in data.types : t.plugin_type \in ALLOWED_PLUGINS
             IN  [errors |->
                      UNION {PluginTypeErrors(data, t) : t \in data.types}
                          \cup (IF ~found_plugin_type
                                THEN {MetadataError("Missing one of the required top-level keys",
                                                    "", "", "")}
                                ELSE {}),
                  data |-> TRUE]

NotValidated == [called |-> FALSE, errors |-> {}, data |-> FALSE]

MetadataInit ==
    /\ metadata_file = EmptyDocument
    /\ validation = NotValidated

\* The file holds something that is not a mapping, or that is not YAML.
WriteOtherDocument ==
    /\ ~validation.called
    /\ metadata_file = EmptyDocument
    /\ \E kind \in {"list", "unreadable"} :
          metadata_file' = [EmptyDocument EXCEPT !.kind = kind]
    /\ UNCHANGED validation
    /\ UNCHANGED otherThanMetadata

\* A top-level key is written; its value is a mapping or a scalar.
WritePluginType ==
    /\ ~validation.called
    /\ metadata_file.kind = "dict"
    /\ DocumentSize(metadata_file) < MaxEntries
    /\ \E plugin_type \in TopLevelKeys, is_dict \in BOOLEAN :
          /\ \A t \in metadata_file.types : t.plugin_type # plugin_type
          /\ metadata_file' =
                [metadata_file EXCEPT !.types =
                    @ \cup {[plugin_type |-> plugin_type, is_dict |-> is_dict]}]
    /\ UNCHANGED validation
    /\ UNCHANGED otherThanMetadata

\* A plugin is written under a plugin type; its metadata is a mapping or a scalar.
WritePlugin ==
    /\ ~validation.called
    /\ DocumentSize(metadata_file) < MaxEntries
    /\ \E t \in metadata_file.types, plugin_name \in PluginNames, is_dict \in BOOLEAN :
          /\ t.is_dict
          /\ t.plugin_type \in ALLOWED_PLUGINS
          /\ \A p \in metadata_file.plugins :
                ~(p.plugin_type = t.plugin_type /\ p.plugin_name = plugin_name)
          /\ metadata_file' =
                [metadata_file EXCEPT !.plugins =
                    @ \cup {[plugin_type |-> t.plugin_type, plugin_name |-> plugin_name,
                             is_dict |-> is_dict]}]
    /\ UNCHANGED validation
    /\ UNCHANGED otherThanMetadata

\* A key is written in the metadata of a plugin.
WriteKey ==
    /\ ~validation.called
    /\ DocumentSize(metadata_file) < MaxEntries
    /\ \E p \in metadata_file.plugins :
          /\ p.is_dict
          /\ \E key \in MetadataKeys(p.plugin_type), value \in ValueTypes :
                /\ \A k \in MetadataItems(metadata_file, p.plugin_type, p.plugin_name) :
                      k.key # key
                /\ metadata_file' =
                      [metadata_file EXCEPT !.keys =
                          @ \cup {[plugin_type |-> p.plugin_type,
                                   plugin_name |-> p.plugin_name,
                                   key |-> key, value |-> value]}]
    /\ UNCHANGED validation
    /\ UNCHANGED otherThanMetadata

\* A key is written in a value that is a mapping.
WriteNestedKey ==
    /\ ~validation.called
    /\ DocumentSize(metadata_file) < MaxEntries
    /\ \E k \in metadata_file.keys, nested_key \in NestedKeys :
          /\ k.value = "dict"
          /\ nested_key \notin NestedKeysOf(metadata_file, k)
          /\ metadata_file' =
                [metadata_file EXCEPT !.nested =
                    @ \cup {[plugin_type |-> k.plugin_type, plugin_name |-> k.plugin_name,
                             key |-> k.key, nested_key |-> nested_key]}]
    /\ UNCHANGED validation
    /\ UNCHANGED otherThanMetadata

\* validate_metadata_file(path of the file)
ValidateMetadataFile ==
    /\ ~validation.called
    /\ LET r == validate_metadata_file(metadata_file)
       IN  validation' = [called |-> TRUE, errors |-> r.errors, data |-> r.data]
    /\ UNCHANGED metadata_file
    /\ UNCHANGED otherThanMetadata

MetadataNext ==
    \/ WriteOtherDocument
    \/ WritePluginType
    \/ WritePlugin
    \/ WriteKey
    \/ WriteNestedKey
    \/ ValidateMetadataFile

(***************************************************************************)
(* handle_metadata.main: the command line entry point                      *)
(*                                                                         *)
(* The metadata file the run finds, or generates, holds the document       *)
(* metadata_file.  The exit code is the one of the interpreter: 1 for      *)
(* sys.exit(1) and for an exception that leaves main, 0 when main returns. *)
(***************************************************************************)

\* the parsed arguments
CliArgs ==
    [plugin_type : ALLOWED_PLUGINS, db_connection : BOOLEAN,
     extract_templates : BOOLEAN, dry_run : BOOLEAN]

\* the plugin directory: which of metadata.yml and metadata.yaml exist
CliPluginDirs == [yml : BOOLEAN, yaml : BOOLEAN]

\* what the run meets outside the process: whether the domain plugin can be
\* imported, whether the generators find a registered plugin, whether the
\* database calls of the endpoint succeed, whether git and gh succeed
CliEnvironments ==
    [domain_plugin : BOOLEAN, registered : BOOLEAN, endpoint : BOOLEAN, pr : BOOLEAN]

NotRun ==
    [called |-> FALSE, exit_code |-> 0, cause |-> "", validated |-> FALSE,
     errors |-> FALSE, validated_json |-> FALSE, upload |-> FALSE, uploaded |-> FALSE,
     pr |-> FALSE, pr_created |-> FALSE, templates |-> FALSE,
     db_connection |-> FALSE, new_metadata |-> FALSE]

Exit(run, exit_code, cause) ==
    [run EXCEPT !.called = TRUE, !.exit_code = exit_code, !.cause = cause]

\* generate_metadata: the path of the generated file exists, or None is returned
GenerateMetadata(env) == env.domain_plugin /\ env.registered

\* extract_templates(plugin_dir, domain, dry_run): templates are written
ExtractTemplates(args, env) == env.domain_plugin /\ env.registered /\ ~args.dry_run

\* MetadataEndpoint.__call__: process_metadata opens metadata.yml of the plugin
\* directory, asks for the plugin type as a top-level key and updates the
\* database; whatever it raises is raised again.
MetadataEndpointSucceeds(args, plugin_dir, new_metadata, data, env) ==
    /\ plugin_dir.yml \/ new_metadata
    /\ \E t \in data.types : t.plugin_type = args.plugin_type
    /\ env.endpoint

\* Faulty variant: validation errors do not end the run.
ValidationFailsNever(errors) == FALSE

\* main, line 411: `if errors:`
ValidationFails(errors) == errors # {}

\* main, from the check of the errors on
AfterValidation(run, args, plugin_dir, new_metadata, data, errors, env) ==
    IF ValidationFails(errors)
    THEN Exit([run EXCEPT !.validated = TRUE, !.errors = errors # {}], 1, "validation")
    ELSE
    LET valid == [run EXCEPT !.validated = TRUE, !.errors = errors # {},
                             !.validated_json = TRUE]
    IN  IF args.db_connection /\ ~env.domain_plugin
        THEN Exit(valid, 1, "domain_plugin")
        ELSE IF /\ args.db_connection
                /\ ~MetadataEndpointSucceeds(args, plugin_dir, new_metadata, data, env)
        THEN Exit([valid EXCEPT !.upload = TRUE], 1, "endpoint")
        ELSE
        LET after_db == [valid EXCEPT !.upload = args.db_connection,
                                      !.uploaded = args.db_connection]
        IN  IF new_metadata
            THEN IF env.pr
                 THEN Exit([after_db EXCEPT !.pr = TRUE, !.pr_created = TRUE], 0, "returned")
                 ELSE Exit([after_db EXCEPT !.pr = TRUE], 1, "create_metadata_pr")
            ELSE Exit(after_db, 0, "returned")

\* main: the run and the result of validate_metadata_file, when it is called
main(args, plugin_dir, data, env) ==
    IF args.extract_templates
    THEN IF args.plugin_type # "benchmarks"
         THEN [run |-> Exit(NotRun, 1, "extract_templates"), validation |-> NotValidated]
         ELSE [run |-> Exit([NotRun EXCEPT !.templates = ExtractTemplates(args, env)],
                            0, "returned"),
               validation |-> NotValidated]
    ELSE IF plugin_dir.yml /\ plugin_dir.yaml
    THEN [run |-> Exit(NotRun, 1, "both_files"), validation |-> NotValidated]
    ELSE
    LET new_metadata == ~plugin_dir.yml /\ ~plugin_dir.yaml
        found == IF new_metadata /\ ~GenerateMetadata(env)
                 THEN [EmptyDocument EXCEPT !.kind = "unreadable"]
                 ELSE data
        r == validate_metadata_file(found)
    IN  [run |-> AfterValidation([NotRun EXCEPT !.db_connection = args.db_connection,
                                                !.new_metadata = new_metadata],
                                 args, plugin_dir, new_metadata, found, r.errors, env),
         validation |-> [called |-> TRUE, errors |-> r.errors, data |-> r.data]]

\* python handle_metadata.py --plugin-dir ... --plugin-type ...
Main ==
    /\ ~cli.called
    /\ ~validation.called
    /\ \E args \in CliArgs, plugin_dir \in CliPluginDirs, env \in CliEnvironments :
          LET r == main(args, plugin_dir, metadata_file, env)
          IN  /\ cli' = r.run
              /\ validation' = r.validation
    /\ UNCHANGED metadata_file
    /\ UNCHANGED otherThanCli

CliNext ==
    \/ WriteOtherDocument
    \/ WritePluginType
    \/ WritePlugin
    \/ WriteKey
    \/ WriteNestedKey
    \/ Main

(***************************************************************************)
(* endpoints.shorten_text on texts and maximal lengths                     *)
(***************************************************************************)

MaxTextLength == 26     \* longest text: 'lorem ipsum dolor sit amet'
MaxMaxLength == 30      \* largest max_length

\* a text of the length: its characters are numbered, so that the parts of a
\* shortened text can be found in it
TextOf(length) == [i \in 1..length |-> i]

ShortenIdle == [text |-> <<>>, max_length |-> 0, called |-> FALSE, shortened |-> <<>>]

\* the arguments of a call
ShortenInit ==
    \E length \in 0..MaxTextLength, max_length \in 0..MaxMaxLength :
        shorten = [ShortenIdle EXCEPT !.text = TextOf(length), !.max_length = max_length]

\* shortened = shorten_text(text, max_length=max_length)
ShortenText ==
    /\ ~shorten.called
    /\ shorten' = [shorten EXCEPT !.called = TRUE,
                                  !.shortened = shorten_text(shorten.text, shorten.max_length)]
    /\ UNCHANGED otherThanShorten

ShortenNext == ShortenText

(***************************************************************************)
(* submission.database: the tables brainscore_user, brainscore_submission, *)
(* brainscore_model and its metadata table, and the functions that write   *)
(* them.  A table is the sequence of its rows, the id of a row its         *)
(* position; no table has a unique index on anything but the id.           *)
(***************************************************************************)

MaxDbCalls == 3         \* calls made on the database
MaxAttemptsArg == 2     \* largest max_attempts of safe_create_model_meta_entry

UserIds == {1, 2}
DbModelIdentifiers == {"dummy"}
DbDomains == {"test"}
DbCompetitions == {"None", "cosyne2022"}
MetadataValues == {"CNN", "Transformer"}

\* What the database does apart from the rows it holds: a query fails, or a
\* value of the metadata cannot be stored.
DbFaults == {"none", "user_select", "modelmeta_value", "modelmeta_db"}

\* Outcomes of create_model_meta_entry: it returns, or it raises the ValueError
\* that says the model was not found, another ValueError, or another error.
NotFound == "ValueError: not found"
OtherValueError == "ValueError"
OtherError == "DatabaseError"

\* submissionentry_from_meta / Submission.create
SubmissionCreate(t, submitter, model_type, status) ==
    [t EXCEPT !.submissions =
        Append(@, [submitter |-> submitter, model_type |-> model_type, status |-> status,
                   deleted |-> FALSE])]

\* Model.select().where(Model.name == name): the ids of the rows
ModelsNamed(t, name) == {i \in DOMAIN t.models : t.models[i].name = name}

\* the first row of a query
First(ids) == CHOOSE i \in ids : \A j \in ids : i <= j

\* Faulty variant: the defaults are written to the row that was found.
GetOrCreateModelOverwriting(t, name, defaults) ==
    IF ModelsNamed(t, name) # {}
    THEN [tables |-> [t EXCEPT !.models[First(ModelsNamed(t, name))] =
                                    [name |-> name] @@ defaults],
          id |-> First(ModelsNamed(t, name)), created |-> FALSE]
    ELSE [tables |-> [t EXCEPT !.models = Append(@, [name |-> name] @@ defaults)],
          id |-> Len(t.models) + 1, created |-> TRUE]

\* Model.get_or_create(name=..., defaults=...): the row of that name, or a new
\* row with the defaults when the query finds none
GetOrCreateModel(t, name, defaults) ==
    IF ModelsNamed(t, name) # {}
    THEN [tables |-> t, id |-> First(ModelsNamed(t, name)), created |-> FALSE]
    ELSE [tables |-> [t EXCEPT !.models = Append(@, [name |-> name] @@ defaults)],
          id |-> Len(t.models) + 1, created |-> TRUE]

\* modelentry_from_model
modelentry_from_model(t, model_identifier, public, competition, submission, domain, bibtex) ==
    LET r == GetOrCreateModel(t, model_identifier,
                              [owner |-> t.submissions[submission].submitter,
                               domain |-> domain, public |-> public,
                               submission |-> submission, competition |-> competition,
                               reference |-> FALSE])
    IN  IF bibtex /\ r.created
        THEN [r EXCEPT !.tables.models[r.id].reference = TRUE]
        ELSE r

\* ModelMeta.select().where(ModelMeta.model == id)
ModelMetasOf(t, id) == {i \in DOMAIN t.modelmetas : t.modelmetas[i].model = id}

\* create_model_meta_entry, after the model entry was found: the ModelMeta row
\* of the model is overwritten, or created
WriteModelMeta(t, id, metadata, fault) ==
    IF fault = "modelmeta_value" THEN [tables |-> t, outcome |-> OtherValueError, model |-> id]
    ELSE IF fault = "modelmeta_db" THEN [tables |-> t, outcome |-> OtherError, model |-> id]
    ELSE IF ModelMetasOf(t, id) # {}
    THEN [tables |-> [t EXCEPT !.modelmetas[First(ModelMetasOf(t, id))].architecture = metadata],
          outcome |-> "returned", model |-> id]
    ELSE [tables |-> [t EXCEPT !.modelmetas =
                                  Append(@, [model |-> id, architecture |-> metadata])],
          outcome |-> "returned", model |-> id]

\* create_model_meta_entry
create_model_meta_entry(t, model_identifier, metadata, fault) ==
    IF fault = "user_select" \/ t.users = {}
    THEN [tables |-> t, outcome |-> NotFound, model |-> 0]
    ELSE
    LET dummy_user == First(t.users)
        with_temp == SubmissionCreate(t, dummy_user, "metadata_lookup", "temporary")
        temp_submission == Len(with_temp.submissions)
        r == modelentry_from_model(with_temp, model_identifier, FALSE, "None",
                                   temp_submission, "unknown", FALSE)
        referenced == \E i \in DOMAIN r.tables.models :
                         r.tables.models[i].submission = temp_submission
    IN  IF t.foreign_keys /\ referenced
        THEN \* delete_instance raises IntegrityError, in the try and in the handler
             [tables |-> r.tables, outcome |-> NotFound, model |-> 0]
        ELSE WriteModelMeta([r.tables EXCEPT !.submissions[temp_submission].deleted = TRUE],
                            r.id, metadata, fault)

\* Faulty variant: every ValueError is retried.
RetriedAnyValueError(error) == error \in {NotFound, OtherValueError}

\* safe_create_model_meta_entry, the except clause:
\* `except ValueError as e: if "not found" in str(e)`
Retried(error) == error = NotFound

NoDbCall ==
    [op |-> "none", outcome |-> "", model_identifier |-> "", submitter |-> 0, id |-> 0,
     created |-> FALSE, models_before |-> <<>>, modelmetas_before |-> <<>>,
     submissions_before |-> <<>>]

SafeIdle ==
    [pc |-> "idle", model_identifier |-> "", metadata |-> "", max_attempts |-> 0,
     attempt |-> 0, log |-> <<>>, outcome |-> "", model |-> 0]

\* the tables before anything is written: no user, no row
DatabaseIdle ==
    /\ tables = [users |-> {}, foreign_keys |-> FALSE, submissions |-> <<>>,
                 models |-> <<>>, modelmetas |-> <<>>, ncalls |-> 0]
    /\ dbcall = NoDbCall
    /\ safe = SafeIdle

\* the tables of a database with or without users, with or without the
\* enforcement of foreign keys
DatabaseInit ==
    /\ \E users \in {{}, UserIds}, foreign_keys \in BOOLEAN :
          tables = [users |-> users, foreign_keys |-> foreign_keys, submissions |-> <<>>,
                    models |-> <<>>, modelmetas |-> <<>>, ncalls |-> 0]
    /\ dbcall = NoDbCall
    /\ safe = SafeIdle

Called(t) == [t EXCEPT !.ncalls = @ + 1]

RecordCall(t, op, how, model_identifier, submitter, id, created) ==
    [op |-> op, outcome |-> how, model_identifier |-> model_identifier,
     submitter |-> submitter, id |-> id, created |-> created,
     models_before |-> t.models, modelmetas_before |-> t.modelmetas,
     submissions_before |-> t.submissions]

\* submission = submissionentry_from_meta(...); modelentry_from_model(..., submission)
ModelEntryFromModel ==
    /\ tables.ncalls < MaxDbCalls
    /\ \E model_identifier \in DbModelIdentifiers, user_id \in tables.users,
          public \in BOOLEAN, competition \in DbCompetitions, domain \in DbDomains,
          bibtex \in BOOLEAN :
          LET with_submission == SubmissionCreate(tables, user_id, "base_model", "running")
              r == modelentry_from_model(with_submission, model_identifier, public,
                                         competition, Len(with_submission.submissions),
                                         domain, bibtex)
          IN  /\ tables' = Called(r.tables)
              /\ dbcall' = RecordCall(tables, "modelentry_from_model", "returned",
                                      model_identifier, user_id, r.id, r.created)
    /\ UNCHANGED safe
    /\ UNCHANGED otherThanDatabase

\* create_model_meta_entry(model_identifier, metadata)
CreateModelMetaEntry ==
    /\ tables.ncalls < MaxDbCalls
    /\ \E model_identifier \in DbModelIdentifiers, metadata \in MetadataValues,
          fault \in DbFaults :
          LET r == create_model_meta_entry(tables, model_identifier, metadata, fault)
          IN  /\ tables' = Called(r.tables)
              /\ dbcall' = RecordCall(tables, "create_model_meta_entry", r.outcome,
                                      model_identifier, 0, r.model, FALSE)
    /\ UNCHANGED safe
    /\ UNCHANGED otherThanDatabase

\* safe_create_model_meta_entry(model_identifier, metadata, max_attempts): the
\* loop is entered, or range(max_attempts) is empty and TimeoutError is raised
SafeCreateCall ==
    /\ safe.pc = "idle"
    /\ \E model_identifier \in DbModelIdentifiers, metadata \in MetadataValues,
          max_attempts \in 0..MaxAttemptsArg :
          safe' = [SafeIdle EXCEPT !.model_identifier = model_identifier,
                                   !.metadata = metadata, !.max_attempts = max_attempts,
                                   !.pc = IF max_attempts = 0 THEN "done" ELSE "loop",
                                   !.outcome = IF max_attempts = 0 THEN "TimeoutError" ELSE ""]
    /\ UNCHANGED <<tables, dbcall>>
    /\ UNCHANGED otherThanDatabase

\* One pass of the loop: the attempt, and the sleep after a model not found.
SafeCreateAttempt ==
    /\ safe.pc = "loop"
    /\ \E fault \in DbFaults :
          LET r == create_model_meta_entry(tables, safe.model_identifier, safe.metadata, fault)
              log == Append(safe.log, r.outcome)
              attempt == safe.attempt + 1
          IN  /\ tables' = r.tables
              /\ safe' =
                    IF r.outcome = "returned"
                    THEN [safe EXCEPT !.pc = "done", !.log = log, !.outcome = "returned",
                                      !.model = r.model]
                    ELSE IF Retried(r.outcome)
                    THEN [safe EXCEPT !.log = log, !.attempt = attempt,
                                      !.pc = IF attempt < safe.max_attempts
                                             THEN "loop" ELSE "done",
                                      !.outcome = IF attempt < safe.max_attempts
                                                  THEN "" ELSE "TimeoutError"]
                    ELSE [safe EXCEPT !.pc = "done", !.log = log, !.outcome = r.outcome]
    /\ UNCHANGED dbcall
    /\ UNCHANGED otherThanDatabase

DatabaseNext ==
    \/ ModelEntryFromModel
    \/ CreateModelMetaEntry
    \/ SafeCreateCall
    \/ SafeCreateAttempt

(***************************************************************************)
(* supported_data_standards.brainio: files loaded from S3                  *)
(*                                                                         *)
(* An object of the bucket has a content per version; a local file has a   *)
(* content or is absent.  The SHA1 of a content is the content tagged, so  *)
(* that different contents have different hashes.                          *)
(***************************************************************************)

MaxFetchCalls == 2      \* calls that load a file

FileContents == {"data", "other"}
VersionIds == {"v1", "v2"}
NoVersion == "None"     \* version_id=None: the latest version
NoSha1 == <<"None">>    \* sha1=None
Absent == "absent"

\* hashlib.sha1 of a file of that content
Sha1(content) == <<"sha1", content>>

Sha1s == {Sha1(c) : c \in FileContents}

\* the local paths: the one given to load_file_from_s3, and the directory named
\* by the sha1 in which fetch_file keeps its file
LocalPaths == {<<"local_filepath">>} \cup Sha1s

\* obj.download_file(..., ExtraArgs={"VersionId": version_id} or None)
RemoteContent(remote, version_id) ==
    IF version_id = NoVersion THEN remote["v2"] ELSE remote[version_id]

\* BotoFetcher.fetch: the file is downloaded unless output_filename exists; the
\* download raises when the signed and the unsigned attempt both fail
BotoFetch(local, remote, output_filename, version_id, download_ok) ==
    IF local[output_filename] # Absent
    THEN [local |-> local, outcome |-> "returned", downloaded |-> FALSE]
    ELSE IF ~download_ok
    THEN [local |-> local, outcome |-> "raised", downloaded |-> FALSE]
    ELSE [local |-> [local EXCEPT ![output_filename] = RemoteContent(remote, version_id)],
          outcome |-> "returned", downloaded |-> TRUE]

\* verify_sha1(file_path, expected_sha1): raises ValueError on a mismatch
verify_sha1(local, file_path, expected_sha1) == Sha1(local[file_path]) = expected_sha1

\* load_file_from_s3(bucket, path, local_filepath, sha1, version_id)
load_file_from_s3(local, remote, local_filepath, sha1, version_id, download_ok) ==
    BotoFetch(local, remote, local_filepath, version_id, download_ok)

\* fetch_file('S3', location, sha1, version_id)
fetch_file(local, remote, sha1, version_id, download_ok) ==
    LET r == BotoFetch(local, remote, sha1, version_id, download_ok)
    IN  IF r.outcome = "returned" /\ sha1 # NoSha1 /\ ~verify_sha1(r.local, sha1, sha1)
        THEN [r EXCEPT !.outcome = "raised"]
        ELSE r

S3Idle ==
    [remote |-> [v \in VersionIds |-> "data"],
     local |-> [p \in LocalPaths |-> Absent],
     calls |-> <<>>]

\* the objects of the bucket, and no local file
S3Init ==
    \E remote \in [VersionIds -> FileContents] : s3 = [S3Idle EXCEPT !.remote = remote]

FetchCall(op, sha1, version_id, r) ==
    [op |-> op, sha1 |-> sha1, version_id |-> version_id, outcome |-> r.outcome,
     downloaded |-> r.downloaded]

\* load_file_from_s3(bucket=..., path=..., local_filepath=..., sha1=..., version_id=...)
LoadFileFromS3 ==
    /\ Len(s3.calls) < MaxFetchCalls
    /\ \E sha1 \in Sha1s \cup {NoSha1}, version_id \in VersionIds \cup {NoVersion},
          download_ok \in BOOLEAN :
          LET r == load_file_from_s3(s3.local, s3.remote, <<"local_filepath">>, sha1,
                                     version_id, download_ok)
          IN  s3' = [s3 EXCEPT !.local = r.local,
                               !.calls = Append(@, FetchCall("load_file_from_s3", sha1,
                                                             version_id, r))]
    /\ UNCHANGED otherThanS3

\* fetch_file(location_type='S3', location=..., sha1=..., version_id=...)
FetchFile ==
    /\ Len(s3.calls) < MaxFetchCalls
    /\ \E sha1 \in Sha1s, version_id \in VersionIds \cup {NoVersion}, download_ok \in BOOLEAN :
          LET r == fetch_file(s3.local, s3.remote, sha1, version_id, download_ok)
          IN  s3' = [s3 EXCEPT !.local = r.local,
                               !.calls = Append(@, FetchCall("fetch_file", sha1, version_id, r))]
    /\ UNCHANGED otherThanS3

S3Next == LoadFileFromS3 \/ FetchFile

(***************************************************************************)
(* Concurrent writers: Model.get_or_create and Score.get_or_create         *)
(*                                                                         *)
(* get_or_create is a SELECT followed, when no row is found, by an INSERT; *)
(* the callers open no transaction around the two statements, and neither  *)
(* table has a unique index on the key, so that the INSERT never fails.    *)
(* Each statement is a step of its writer.                                 *)
(***************************************************************************)

MaxWriters == 2         \* processes writing to the database
MaxWriterCalls == 2     \* calls of get_or_create per writer

Writers == 1..MaxWriters

\* the keys: the name of a model, the benchmark instance and model of a score
WriterKeys ==
    [table : {"brainscore_model"}, key : {<<"dummy">>}]
    \cup [table : {"brainscore_score"},
          key : {<<"dummybenchmark1", "dummymodel1">>, <<"dummybenchmark2", "dummymodel1">>}]

\* the SELECT of get_or_create: the rows of the key
RowsOf(rows, k) == {i \in DOMAIN rows : rows[i].table = k.table /\ rows[i].key = k.key}

\* Faulty variant: the INSERT of a key that has a row by now inserts nothing
\* (the tables have no unique index that could make it so).
InsertUnlessExists(rows, k, writer) ==
    IF RowsOf(rows, k) # {} THEN rows
    ELSE Append(rows, [table |-> k.table, key |-> k.key, writer |-> writer])

\* the INSERT of get_or_create
Insert(rows, k, writer) ==
    Append(rows, [table |-> k.table, key |-> k.key, writer |-> writer])

WriterIdle ==
    [pc |-> "idle", table |-> "", key |-> <<>>, found |-> FALSE, created |-> FALSE,
     calls |-> 0, inserted |-> 0]

WritersInit ==
    conc = [rows |-> <<>>, writers |-> [w \in Writers |-> WriterIdle]]

\* get_or_create, first statement: the writer looks for the row of its key
WriterGet(w) ==
    /\ conc.writers[w].pc \in {"idle", "done"}
    /\ conc.writers[w].calls < MaxWriterCalls
    /\ \E k \in WriterKeys :
          conc' = [conc EXCEPT !.writers[w] =
                      [@ EXCEPT !.pc = IF RowsOf(conc.rows, k) # {} THEN "done" ELSE "create",
                                !.table = k.table, !.key = k.key,
                                !.found = RowsOf(conc.rows, k) # {},
                                !.created = FALSE,
                                !.calls = @ + 1]]
    /\ UNCHANGED otherThanWriters

\* get_or_create, second statement: the writer that found no row inserts one
WriterCreate(w) ==
    /\ conc.writers[w].pc = "create"
    /\ LET k == [table |-> conc.writers[w].table, key |-> conc.writers[w].key]
           rows == Insert(conc.rows, k, w)
       IN  conc' = [conc EXCEPT !.rows = rows,
                                !.writers[w] =
                                    [@ EXCEPT !.pc = "done", !.created = TRUE,
                                              !.inserted = @ + (Len(rows) - Len(conc.rows))]]
    /\ UNCHANGED otherThanWriters

WritersNext == \E w \in Writers : WriterGet(w) \/ WriterCreate(w)

(***************************************************************************)
(* Specifications                                                          *)
(***************************************************************************)

Init == LocInit /\ TestInit /\ ScoreInit /\ rt = RtIdle /\ proc = ProcIdle /\ EndpointInit
        /\ ChangesInit /\ MetadataInit /\ cli = NotRun /\ shorten = ShortenIdle
        /\ DatabaseIdle /\ s3 = S3Idle /\ WritersInit

\* locate_plugin on directory listings
SpecLocate == Init /\ [][LocNext]_vars

\* run_args on batches of plugins
SpecTests == Init /\ [][TestNext]_vars

\* concurrent scoring runs
SpecScore == Init /\ [][ScoreNext]_vars

\* a test that saves a score and consumes it
InitRoundTrip == LocInit /\ TestInit /\ ScoreInit /\ RtInit /\ proc = ProcIdle /\ EndpointInit
        /\ ChangesInit /\ MetadataInit /\ cli = NotRun /\ shorten = ShortenIdle
        /\ DatabaseIdle /\ s3 = S3Idle /\ WritersInit

\* save_score followed by consume_score
SpecRoundTrip == InitRoundTrip /\ [][RtNext]_vars

\* one interpreter calling import_plugin and wrap_score
SpecProcess == Init /\ [][ProcNext]_vars

\* the endpoint called for the pairs of a submission
SpecEndpoint == Init /\ [][EndpointNext]_vars

\* the changed files of a pull request are parsed
SpecChanges == Init /\ [][ChangesNext]_vars

\* a metadata file is written and validated
SpecMetadata == Init /\ [][MetadataNext]_vars

\* a metadata file is written and the command line is run on its plugin
SpecCli == Init /\ [][CliNext]_vars

\* shorten_text is called on a text and a maximal length
InitShorten == LocInit /\ TestInit /\ ScoreInit /\ rt = RtIdle /\ proc = ProcIdle /\ EndpointInit
        /\ ChangesInit /\ MetadataInit /\ cli = NotRun /\ ShortenInit
        /\ DatabaseIdle /\ s3 = S3Idle /\ WritersInit

SpecShorten == InitShorten /\ [][ShortenNext]_vars

\* calls of the functions of submission.database, one after the other
InitDatabase == LocInit /\ TestInit /\ ScoreInit /\ rt = RtIdle /\ proc = ProcIdle /\ EndpointInit
        /\ ChangesInit /\ MetadataInit /\ cli = NotRun /\ shorten = ShortenIdle
        /\ DatabaseInit /\ s3 = S3Idle /\ WritersInit

SpecDatabase == InitDatabase /\ [][DatabaseNext]_vars

\* files are loaded from a bucket
InitS3 == LocInit /\ TestInit /\ ScoreInit /\ rt = RtIdle /\ proc = ProcIdle /\ EndpointInit
        /\ ChangesInit /\ MetadataInit /\ cli = NotRun /\ shorten = ShortenIdle
        /\ DatabaseIdle /\ S3Init /\ WritersInit

SpecS3 == InitS3 /\ [][S3Next]_vars

\* writers of the database run get_or_create at the same time
SpecWriters == Init /\ [][WritersNext]_vars

(***************************************************************************)
(* Claims                                                                  *)
(***************************************************************************)

\* The directories of the listing that register the identifier: visible
\* directories whose __init__.py holds registry['identifier'] in either quote style.
Registering(listing, registry_name, identifier) ==
    { i \in DOMAIN listing :
        /\ listing[i].is_dir
        /\ listing[i].name[1] \notin {".", "_"}
        /\ listing[i].has_init
        /\ \E k \in DOMAIN listing[i].init, q1 \in {"'", "\""}, q2 \in {"'", "\""} :
              Contains(<<registry_name, "[", q1, identifier, q2, "]">>, listing[i].init[k]) }

\* C1: locate_plugin returns the name of the one visible directory whose
\* __init__.py registers the identifier, and raises when zero or more than one
\* directory registers it.
C1_LocateUnique ==
    loc.called =>
        LET R == Registering(plugins_dir, loc.registry_name, loc.identifier)
        IN  /\ Cardinality(R) = 1 =>
                /\ loc.result.outcome = "returned"
                /\ \A i \in R : loc.result.dirname = plugins_dir[i].name
            /\ Cardinality(R) # 1 => loc.result.outcome = "raised"

\* The one visible directory registering the identifier (with double quotes) is
\* returned although a hidden directory registers the same identifier.
C1_Witness ==
    /\ loc.called
    /\ loc.result.outcome = "returned"
    /\ \E i, j \in DOMAIN plugins_dir :
        /\ plugins_dir[i].name = loc.result.dirname
        /\ Len(PluginRegistrations(plugins_dir[i].init, loc.registry_name, loc.identifier)) = 1
        /\ StartsWith(plugins_dir[j].name, "_")
        /\ plugins_dir[j].is_dir
        /\ Len(PluginRegistrations(plugins_dir[j].init, loc.registry_name, loc.identifier)) = 1

FailedItems ==
    {i \in BatchItems : runner[i] = "returned" /\ returncode[i] \notin {0, 5}}

\* C3 (as claimed): the environment created for a scoring run is torn down when
\* the run of CondaScore.__call__ ends, whether it returned the score or raised.
C3_TornDownAfterScoring ==
    \A r \in RunIds :
        (runs[r].pc \in {"returned", "raised"} /\ runs[r].env # "absent")
            => runs[r].env = "removed"

\* C4 (as claimed): a batch that ran to its end finishes with the aggregate
\* failure listing every plugin whose return code is neither 0 nor 5, with that
\* code, and finishes without failure only if there is no such plugin.
C4_AggregateListsEveryFailure ==
    (pc = "done" /\ outcome.cause \in {"", "plugin tests failed"}) =>
        IF FailedItems = {}
        THEN outcome.kind = "returned"
        ELSE /\ outcome.kind = "raised"
             /\ DOMAIN outcome.errors = FailedItems
             /\ \A i \in FailedItems : outcome.errors[i] = returncode[i]

\* C5 (as claimed): whatever fails for one plugin, a failing return code or a
\* failing validation, every plugin or test file of the batch is attempted before
\* run_args ends.
C5_EveryPluginAttempted ==
    (pc = "done" /\ outcome.cause \in {"", "plugin tests failed", "validate_plugin"})
        => \A i \in BatchItems : runner[i] # "none"

\* C5 (amended): a failing return code does not stop the batch: run_args reaches
\* its final assertion only after the runner of every plugin or test file of the
\* batch has been called and has returned; when some of them were not attempted,
\* run_args was left by an exception of a test-file assertion, of validate_plugin
\* or of run_in_env.
C5_ReturnCodesDoNotStopBatch ==
    /\ pc \in {"aggregate", "done"} /\ outcome.cause \in {"", "plugin tests failed"}
        => \A i \in BatchItems : runner[i] \in {"returned", "skipped"}
    /\ (pc = "done" /\ \E i \in BatchItems : runner[i] = "none")
        => /\ outcome.kind = "raised"
           /\ outcome.cause \in {"test_file", "validate_plugin", "run_in_env"}

\* The first plugin failed its tests, the second one was still run, and run_args
\* ended with the aggregate failure.
C5_Witness ==
    /\ pc = "done"
    /\ outcome.cause = "plugin tests failed"
    /\ batch.size >= 2
    /\ returncode[1] = 1
    /\ runner[1] = "returned"
    /\ runner[2] = "returned"

\* C6: save_score(s, P, E) followed by consume_score(P.parent, E) returns a score
\* equal to s.
C6_RoundTrip ==
    rt.phase = "consumed" => (rt.outcome = "returned" /\ rt.result = rt.score)

\* A score with attributes went through a library path with directories.
C6_Witness ==
    /\ rt.phase = "consumed"
    /\ rt.result = rt.score
    /\ Len(rt.score.attrs) = 2
    /\ Len(rt.library_path) = 3

\* C7: the parent reads the score file only after the child process ended with
\* return code 0; after a non-zero return code the call raises and the parent has
\* neither read nor removed the file.
C7_ReadOnlyAfterSuccess ==
    \A r \in RunIds :
        /\ (runs[r].reads > 0 \/ runs[r].removes > 0
                \/ runs[r].pc \in {"consume_load", "consume_remove"})
            => (runs[r].rc = 0 /\ ~runs[r].conda_active /\ runs[r].env = "created")
        /\ runs[r].rc # 0
            => /\ runs[r].pc \in {"check_returncode", "raised"}
               /\ runs[r].reads = 0
               /\ runs[r].removes = 0
               /\ runs[r].pc = "raised" => runs[r].cause = "CalledProcessError"

\* The child wrote a score and ended with a non-zero code: the call raised and
\* the file is still there, unread.
C7_Witness ==
    \E r \in RunIds :
        /\ runs[r].pc = "raised"
        /\ runs[r].rc = 1
        /\ runs[r].reads = 0
        /\ \E f \in files : f.writer = r /\ f.path = ReadPath(runs[r])

\* The score path in closed form: the directory that contains the library
\* directory, and the file name conda_score--{model}_{benchmark}.pkl.
HandoffPath(library_path, model_identifier, benchmark_identifier) ==
    Append(Parent(Parent(library_path)),
           <<"conda_score--">> \o model_identifier \o <<"_">> \o benchmark_identifier
                \o <<".pkl">>)

\* C8: when the parent of a run that has the score paths to itself comes to read,
\* the one file on disk is the file its child wrote, it lies at the path the
\* parent reads, and that path is determined by the library path and the
\* environment name.
C8_HandoffPathAgreement ==
    \A r \in RunIds :
        (runs[r].pc = "consume_load" /\ \A q \in RunIds \ {r} : runs[q].pc = "idle")
            => /\ files = {[path |-> ReadPath(runs[r]),
                            data |-> Pickle(runs[r].score), writer |-> r]}
               /\ ReadPath(runs[r]) =
                    HandoffPath(runs[r].library_path, runs[r].model, runs[r].benchmark)

\* A parent is about to read the score of its child, in a library with directories.
C8_Witness ==
    \E r \in RunIds :
        /\ runs[r].pc = "consume_load"
        /\ Len(runs[r].library_path) = 3
        /\ \A q \in RunIds \ {r} : runs[q].pc = "idle"
        /\ Exists(files, ReadPath(runs[r]))

\* C9 (as claimed): no completed scoring run leaves a score file it wrote behind.
C9_NoScoreFileLeftBehind ==
    \A r \in RunIds :
        runs[r].pc = "returned" => \A f \in files : f.writer # r

\* The directory the score file of a run is placed in.
ScoreDirectory(run) == Parent(Parent(run.library_path))

\* C10: a parent reads the score written by another run, or misses the file of
\* its own child, only when another run shares its score directory and its
\* environment name; C10_Witness shows that such runs do race.
C10_RaceOnlyOnSharedPath ==
    \A r \in RunIds :
        (runs[r].read_from \notin {0, r} \/ runs[r].cause = "FileNotFoundError")
            => \E q \in RunIds \ {r} :
                /\ runs[q].pc # "idle"
                /\ ScoreDirectory(runs[q]) = ScoreDirectory(runs[r])
                /\ EnvName(runs[q].model, runs[q].benchmark)
                        = EnvName(runs[r].model, runs[r].benchmark)

\* Two runs of the same library, model and benchmark: one parent has consumed
\* the score written by the child of the other run, whose parent then found the
\* file deleted.
C10_Witness ==
    \E r, q \in RunIds :
        /\ r # q
        /\ runs[r].library_path = runs[q].library_path
        /\ runs[r].model = runs[q].model
        /\ runs[r].benchmark = runs[q].benchmark
        /\ runs[r].pref = "newenv" /\ runs[q].pref = "newenv"
        /\ runs[r].pc = "returned"
        /\ runs[r].read_from = q
        /\ runs[q].pc = "raised"
        /\ runs[q].cause = "FileNotFoundError"

\* The last call of the process, when it is a wrap_score call whose preference
\* was accepted.
WrapScoreCalled ==
    /\ proc.call.op = "wrap_score"
    /\ proc.call.env_var \in {Unset, "yes", "no", "newenv"}

\* The path the isolated mode reads its score from.
IsolatedModePath(call) ==
    ConsumeScorePath(Parent(call.library_path), EnvName(call.model, call.benchmark))

\* C11: wrap_score hands the scoring to a new environment exactly when the
\* installation preference is 'newenv' and conda_active is false; in every other
\* case it calls score_function itself exactly once, returns that result, and the
\* result is in the file at the score path of the isolated mode.
C11_ModeSelection ==
    WrapScoreCalled =>
        LET c == proc.call
            isolated == c.env_var = "newenv" /\ ~c.conda_active
        IN  /\ (c.env # "absent") <=> isolated
            /\ isolated => c.calls = 0
            /\ ~isolated =>
                /\ c.calls = 1
                /\ c.outcome = "returned"
                /\ c.result = score_function(c.model, c.benchmark)
                /\ Exists(files, IsolatedModePath(c))
                /\ Loadable(FileAt(files, IsolatedModePath(c)).data)
                /\ Unpickle(FileAt(files, IsolatedModePath(c)).data) = c.result

\* A call inside the scoring environment ('newenv' with conda_active set) has
\* scored in-process, and a call outside of it has been handed to an environment.
C11_Witness ==
    /\ WrapScoreCalled
    /\ proc.call.env_var = "newenv"
    /\ proc.call.conda_active
    /\ proc.call.calls = 1
    /\ proc.call.outcome = "returned"
    /\ proc.ncalls > 1

\* The last call of the process, when it is an import_plugin call for a plugin
\* that was located.
ImportPluginCalled ==
    /\ proc.call.op = "import_plugin"
    /\ proc.call.identifier = "alexnet"

\* The installer files of the plugin of the last call.
InstallerFiles(call) ==
    LET d == CHOOSE d \in call.contents : TRUE
    IN  (IF d.has_setup THEN 1 ELSE 0) + (IF d.has_requirements THEN 1 ELSE 0)

\* C12: import_plugin acts on the value BS_INSTALL_DEPENDENCIES has when it is
\* called: with 'no' no installer runs; with 'yes' or unset every installer file
\* of the plugin is installed into the current interpreter; with 'newenv' nothing
\* is installed into the current interpreter; any other value is rejected.
C12_InstallPreferenceSemantics ==
    ImportPluginCalled =>
        LET c == proc.call
        IN  /\ c.env_var = "no" => c.pip_runs = 0
            /\ c.env_var \in {"yes", Unset} => c.pip_runs = InstallerFiles(c)
            /\ c.env_var = "newenv" => c.pip_runs = 0
            /\ c.env_var \notin {"yes", Unset, "no", "newenv"} => c.outcome = "AssertionError"

\* C13: when the installation of setup.py or of requirements.txt fails during
\* import_plugin, the call does not return normally.
C13_InstallerFailureSurfaces ==
    (ImportPluginCalled /\ proc.call.pip_failed) => proc.call.outcome # "returned"

\* A plugin directory without a recognized test file, or whose environment.yml
\* declares a name or more than one python version.
InvalidPlugin(d) ==
    \/ \A f \in d.files : ~RecognizedTestFile(f)
    \/ /\ d.has_yml
       /\ \/ \E k \in DOMAIN d.yml : d.yml[k][1] = "name"
          \/ Cardinality({k \in DOMAIN d.yml : \E j \in DOMAIN d.yml[k] : d.yml[k][j] = "python="}) > 1

\* C14: PluginTestRunner.__call__ validates before it runs anything: a runner
\* that has an environment or a return code of a test command has a plugin that
\* passed validation, and for an invalid plugin the call fails with no
\* environment created and no test command executed.
C14_ValidationPrecedesExecution ==
    \A i \in Items :
        /\ (plugin_dirs[i] # NoDirState /\ InvalidPlugin(plugin_dirs[i])) =>
                /\ runner[i] = "raised"
                /\ test_envs[i] = "absent"
                /\ outcome.kind = "raised"
                /\ outcome.cause = "validate_plugin"
        /\ (test_envs[i] # "absent" \/ runner[i] \in {"ran", "returned"}) =>
                /\ plugin_dirs[i] # NoDirState
                /\ ~InvalidPlugin(plugin_dirs[i])

\* The second plugin of a batch has an environment.yml with two python versions:
\* its call failed without an environment, after the first plugin was run.
C14_Witness ==
    /\ batch.size >= 2
    /\ runner[1] = "returned"
    /\ test_envs[1] = "removed"
    /\ plugin_dirs[2].has_yml
    /\ plugin_dirs[2].yml = YmlTwoPythons
    /\ runner[2] = "raised"
    /\ test_envs[2] = "absent"

\* Whether the pair of call k had a raw score stored by an earlier call.
AlreadyScored(k) ==
    \E j \in 1..(k - 1) :
        /\ scoring[j].pair = scoring[k].pair
        /\ scoring[j].scored
        /\ scoring[j].what.kind \in {"scored", "update_score"}

\* Whether scoring the pair of call k raises, from what happens in that call alone.
ScoringRaises(k) ==
    \/ scoring[k].what.kind \in {"load_model", "load_benchmark"}
    \/ scoring[k].what.kind \in {"score", "update_score"} /\ ~AlreadyScored(k)

\* C15: every call of RunScoringEndpoint returns, whether or not scoring the pair
\* raised; the submission it created has status 'failure' if scoring raised and
\* 'successful' otherwise, never 'running'; and whether a call fails depends on
\* that call's own scoring only, not on the failures of the calls before it.
C15_ScoringFailuresAreCaught ==
    /\ Len(db.submissions) = Len(scoring)
    /\ \A k \in DOMAIN scoring :
        /\ scoring[k].outcome = "returned"
        /\ scoring[k].raised <=> ScoringRaises(k)
        /\ db.submissions[k] = IF ScoringRaises(k) THEN "failure" ELSE "successful"

\* The first pair failed in its score method, the second pair was scored after it.
C15_Witness ==
    /\ Len(scoring) >= 2
    /\ scoring[1].what.kind = "score"
    /\ scoring[2].what.kind = "scored"
    /\ scoring[2].pair # scoring[1].pair
    /\ db.submissions[1] = "failure"
    /\ db.submissions[2] = "successful"
    /\ ScoreEntry(db.scores, scoring[2].pair[1], scoring[2].pair[2]).has_score_raw

\* The last call of the endpoint, when the score method raised in it.
ScoreRaisedInLastCall ==
    /\ Len(scoring) > 0
    /\ scoring[Len(scoring)].what.kind = "score"
    /\ scoring[Len(scoring)].scored

\* C16: when the score method raises for a pair, the Score row of the pair is
\* saved with the error message as comment, shortened to at most
\* Score.comment.max_length characters (the whole message when it fits, else its
\* beginning and its end), and score_raw stays unset.
C16_ErrorCommentWithinMaxLength ==
    ScoreRaisedInLastCall =>
        LET c == scoring[Len(scoring)]
            row == ScoreEntry(db.scores, c.pair[1], c.pair[2])
            n == c.what.length
        IN  /\ row.exists
            /\ row.has_comment
            /\ ~row.has_score_raw
            /\ Len(row.comment) <= CommentMaxLength
            /\ n <= CommentMaxLength => row.comment = ErrorMessage(n)
            /\ n > CommentMaxLength =>
                /\ Len(row.comment) = CommentMaxLength
                /\ row.comment[1] = 1
                /\ row.comment[Len(row.comment)] = n

\* A message longer than the maximum was stored, shortened, after an earlier
\* failure of the same pair.
C16_Witness ==
    /\ ScoreRaisedInLastCall
    /\ Len(scoring) >= 2
    /\ scoring[Len(scoring)].what.length > CommentMaxLength
    /\ scoring[1].pair = scoring[Len(scoring)].pair
    /\ Len(scoring[Len(scoring)].after.comment) = CommentMaxLength

\* The last call, when it is parse_plugin_changes and it returned.
PluginChangesParsed ==
    /\ parsed.op = "parse_plugin_changes"
    /\ parsed.outcome = "returned"

\* A path below one of the four plugin-type directories.
UnderPluginTypeDirectory(f) ==
    /\ Len(f) >= 2
    /\ f[2] \in Range(PLUGIN_DIRS)

\* A path inside a plugin: below a plugin-type directory, and not a file that
\* lies directly in the plugin-type directory.
InsidePlugin(f) ==
    /\ UnderPluginTypeDirectory(f)
    /\ ~(Len(f) = 3 /\ f \notin Directories)

\* C17: when parse_plugin_changes returns, is_automergeable is true iff every
\* changed file lies inside a plugin: no file is outside the plugin-type
\* directories (non-plugin file, helper file, special interface file) and none
\* lies directly in a plugin-type directory (plugin-related file).
C17_AutomergeableIffOnlyPluginFiles ==
    PluginChangesParsed =>
        (parsed.info.is_automergeable <=> \A f \in Range(changed) : InsidePlugin(f))

\* C17 as stated: is_automergeable is true iff the changed files all lie under
\* the recognized plugin(-type) directories.
C17_AutomergeableIffUnderPluginDirectories ==
    PluginChangesParsed =>
        (parsed.info.is_automergeable <=> \A f \in Range(changed) : UnderPluginTypeDirectory(f))

\* Two files inside plugins were changed and the change is automergeable.
C17_Witness ==
    /\ PluginChangesParsed
    /\ Len(changed) >= 2
    /\ \A f \in Range(changed) : InsidePlugin(f)
    /\ parsed.info.is_automergeable
    /\ parsed.info.modifies_plugins

\* The last call, when it is separate_plugin_files.
PluginFilesSeparated == parsed.op = "separate_plugin_files"

\* C18: separate_plugin_files places every changed path in exactly one of its
\* three lists; a path goes to the plugin files only if its second segment is a
\* plugin-type directory, and a path with such a second segment is never a
\* non-plugin file; a three-segment path below a plugin-type directory that is not
\* a directory is plugin-related, every other path below one is a plugin file.
C18_ThreeClasses ==
    PluginFilesSeparated =>
        LET pf == Range(parsed.plugin_files)
            nf == Range(parsed.non_plugin_files)
            rf == Range(parsed.plugin_related_files)
        IN  /\ pf \cup nf \cup rf = Range(changed)
            /\ pf \cap nf = {} /\ pf \cap rf = {} /\ nf \cap rf = {}
            /\ Len(parsed.plugin_files) + Len(parsed.non_plugin_files)
                    + Len(parsed.plugin_related_files) = Len(changed)
            /\ \A f \in Range(changed) :
                /\ f \in pf => UnderPluginTypeDirectory(f)
                /\ UnderPluginTypeDirectory(f) => f \notin nf
                /\ (UnderPluginTypeDirectory(f) /\ Len(f) = 3 /\ f \notin Directories) => f \in rf
                /\ (UnderPluginTypeDirectory(f) /\ ~(Len(f) = 3 /\ f \notin Directories)) => f \in pf

\* A file directly in a plugin-type directory, a directory of a plugin and a
\* non-plugin file were separated into the three lists.
C18_Witness ==
    /\ PluginFilesSeparated
    /\ Len(parsed.plugin_files) = 1
    /\ parsed.plugin_files[1] \in Directories
    /\ Len(parsed.non_plugin_files) = 1
    /\ Len(parsed.plugin_related_files) = 1
    /\ UnderPluginTypeDirectory(parsed.plugin_related_files[1])

\* The last call, when it is plugin_types_to_test_all and it returned.
TypesToTestAllReturned ==
    /\ parsed.op = "plugin_types_to_test_all"
    /\ parsed.outcome = "returned"

\* A shared data or metric file: in the data or metrics directory, or in their
\* helpers directory.
DataOrMetricRelated(f) ==
    /\ Len(f) >= 2
    /\ f[2] \in {<<"data">>, <<"metric", "s">>, <<"data", "_helpers">>, <<"metric", "_helpers">>}

\* The plugin type a shared data or metric file belongs to.
ChangedTypeOf(f) == IF f[2][1] = "data" THEN <<"data">> ELSE <<"metric", "s">>

MetadataValidated == validation.called

ReportedValid == validation.called /\ validation.errors = {}

\* the sections of a benchmark whose nested keys the allow-list names
BenchmarkSections == {"stimulus_set", "data", "metric"}

\* every key of every plugin entry is in the allow-list of its plugin type,
\* the keys nested in the sections of a benchmark included
AllKeysAllowed ==
    /\ \A k \in metadata_file.keys :
          k.plugin_type \in ALLOWED_PLUGINS =>
              k.key \in (IF k.plugin_type = "benchmarks"
                         THEN DOMAIN ALLOWED_KEYS_BY_TYPE.benchmarks
                         ELSE ALLOWED_KEYS_BY_TYPE[k.plugin_type])
    /\ \A n \in metadata_file.nested :
          (n.plugin_type = "benchmarks" /\ n.key \in BenchmarkSections) =>
              n.nested_key \in ALLOWED_KEYS_BY_TYPE.benchmarks[n.key]

\* C20: a metadata document is reported valid (validate_metadata_file returns
\* no error) only if its top-level value is a mapping whose keys are allowed
\* plugin types, the value of each is a mapping of plugins to mappings, and
\* every key of every plugin entry, the keys nested in a benchmark's
\* stimulus_set, data and metric sections included, is in the allow-list of
\* the plugin type: a key outside the allow-list yields an error.
C20_ValidOnlyIfAllKeysAllowed ==
    ReportedValid =>
        /\ metadata_file.kind = "dict"
        /\ metadata_file.types # {}
        /\ \A t \in metadata_file.types : t.plugin_type \in ALLOWED_PLUGINS /\ t.is_dict
        /\ \A p \in metadata_file.plugins : p.is_dict
        /\ AllKeysAllowed

\* ---- C21

CliRunEnded == cli.called

\* validate_metadata_file was called by the run and returned errors
CliValidationFailed == cli.called /\ cli.validated /\ cli.errors

\* the steps after the validation that end a run with exit code 1
LaterFailures == {"domain_plugin", "endpoint", "create_metadata_pr"}

\* the checks before the validation that end a run with exit code 1
EarlierExits == {"extract_templates", "both_files"}

\* C21: a run of handle_metadata whose validation fails exits with code 1 and
\* performs neither the database upload nor the creation of the pull request;
\* a run exits with code 0 only without a validation failure, and a run
\* without a validation failure exits with code 0 unless it was stopped before
\* the validation (template extraction for a plugin type other than
\* benchmarks, both metadata.yml and metadata.yaml present) or a later step
\* failed (domain plugin not loaded, endpoint raised, pull request not created).
C21_ExitCodeOfValidation ==
    /\ CliValidationFailed =>
          /\ cli.exit_code = 1
          /\ ~cli.validated_json /\ ~cli.upload /\ ~cli.uploaded
          /\ ~cli.pr /\ ~cli.pr_created
    /\ (cli.called /\ cli.exit_code = 0) => ~CliValidationFailed
    /\ (cli.called /\ ~CliValidationFailed) =>
          (cli.exit_code = 0 <=> cli.cause \notin (LaterFailures \cup EarlierExits))

\* C21 as stated: exit code 1 on a validation failure, with no upload and no
\* pull request, and exit code 0 in every run without a validation failure.
C21_ExitCodeZeroOtherwise ==
    /\ CliValidationFailed =>
          /\ cli.exit_code = 1
          /\ ~cli.upload /\ ~cli.pr
    /\ (cli.called /\ ~CliValidationFailed) => cli.exit_code = 0

\* a generated metadata file with a key outside the allow-list is validated by
\* a run that was asked to upload to the database
C21_Witness ==
    /\ CliValidationFailed
    /\ cli.db_connection /\ cli.new_metadata
    /\ metadata_file.keys # {}
    /\ cli.exit_code = 1

\* ---- C22

ShortenTextCalled == shorten.called

\* the text is a prefix of the text, the spacer and a suffix of the text
PrefixSpacerSuffix(shortened, text) ==
    \E i \in 0..Len(text), j \in 0..Len(text) :
        shortened = SubSeq(text, 1, i) \o Spacer \o SubSeq(text, Len(text) - j + 1, Len(text))

\* C22: shorten_text(text, max_length) returns the text unchanged when
\* len(text) <= max_length; otherwise the result has exactly max_length
\* characters and consists of a prefix of the text, the spacer '[...]' and a
\* suffix of the text.
C22_ShortenTextLength ==
    ShortenTextCalled =>
        IF Len(shorten.text) <= shorten.max_length
        THEN shorten.shortened = shorten.text
        ELSE /\ Len(shorten.shortened) = shorten.max_length
             /\ PrefixSpacerSuffix(shorten.shortened, shorten.text)

\* ---- C23

SafeCreateEnded == safe.pc = "done"

\* the attempts made so far that ended with the model not found
AllNotFound(log) == \A k \in DOMAIN log : log[k] = NotFound

\* C23: safe_create_model_meta_entry makes at most max_attempts attempts, and
\* every attempt but the last one ended with the 'not found' ValueError; it
\* returns the record of the first attempt that succeeds, raises again at once
\* the error of an attempt that is not a 'not found' ValueError, and raises
\* TimeoutError when max_attempts attempts in a row ended with 'not found'.
C23_RetriesUntilFoundOrTimeout ==
    /\ Len(safe.log) <= safe.max_attempts
    /\ safe.attempt <= safe.max_attempts
    /\ AllNotFound(SubSeq(safe.log, 1, Len(safe.log) - 1))
    /\ safe.pc = "loop" => AllNotFound(safe.log) /\ Len(safe.log) < safe.max_attempts
    /\ SafeCreateEnded =>
          \/ /\ safe.outcome = "returned"
             /\ safe.log[Len(safe.log)] = "returned"
             /\ safe.model \in DOMAIN tables.models
             /\ tables.models[safe.model].name = safe.model_identifier
             /\ \E i \in DOMAIN tables.modelmetas : tables.modelmetas[i].model = safe.model
          \/ /\ safe.outcome \in {OtherValueError, OtherError}
             /\ safe.log[Len(safe.log)] = safe.outcome
          \/ /\ safe.outcome = "TimeoutError"
             /\ Len(safe.log) = safe.max_attempts
             /\ AllNotFound(safe.log)

\* the first attempt did not find the model, the second one returned its record
C23_Witness ==
    /\ SafeCreateEnded
    /\ safe.max_attempts = 2
    /\ safe.log = <<NotFound, "returned">>
    /\ safe.outcome = "returned"

\* ---- C24

\* C24: whenever a sha1 is passed, load_file_from_s3 returns only if the SHA1 of
\* the file at local_filepath equals it, and fails otherwise.
C24_Sha1IsValidated ==
    (/\ Len(s3.calls) > 0
     /\ s3.calls[Len(s3.calls)].op = "load_file_from_s3"
     /\ s3.calls[Len(s3.calls)].sha1 # NoSha1
     /\ s3.calls[Len(s3.calls)].outcome = "returned")
        => Sha1(s3.local[<<"local_filepath">>]) = s3.calls[Len(s3.calls)].sha1

\* ---- C25

\* the rows of a key
Duplicates(k) == Cardinality(RowsOf(conc.rows, k)) >= 2

\* C25: get-or-create is not atomic.  A writer whose SELECT found no row inserts
\* a row, whatever the other writers inserted in between: every writer has
\* inserted one row per call in which it observed absence, so that two writers
\* that both observe the absence of a key both insert and leave two rows of it.
C25_AbsenceObservedIsInserted ==
    /\ \A w \in Writers :
          /\ conc.writers[w].pc = "done" => (conc.writers[w].created <=> ~conc.writers[w].found)
          /\ Cardinality({i \in DOMAIN conc.rows : conc.rows[i].writer = w})
                = conc.writers[w].inserted
          /\ (conc.writers[w].pc = "done" /\ conc.writers[w].created) =>
                \E i \in DOMAIN conc.rows :
                    /\ conc.rows[i].writer = w
                    /\ conc.rows[i].table = conc.writers[w].table
                    /\ conc.rows[i].key = conc.writers[w].key
    /\ \A k \in WriterKeys :
          Duplicates(k) =>
              \E i, j \in RowsOf(conc.rows, k) : conc.rows[i].writer # conc.rows[j].writer

\* two writers have both inserted a Model row of the same name, and both a
\* Score row of the same benchmark instance and model
C25_Witness ==
    /\ Duplicates([table |-> "brainscore_model", key |-> <<"dummy">>])
    /\ Duplicates([table |-> "brainscore_score", key |-> <<"dummybenchmark1", "dummymodel1">>])
    /\ \A w \in Writers : conc.writers[w].inserted = 2

\* ---- C26

EndpointCalled == Len(scoring) > 0

\* C26: after any sequence of calls of the endpoint, one after the other, a
\* pair has at most one Score row; a call for a pair whose row has a score_raw
\* value does not invoke the score method and leaves the row as it was; a call
\* that reaches the scoring of a pair whose row has no score value runs the
\* score method again, and the comment of the row before the call is not kept.
C26_OneScoreRowPerPair ==
    /\ \A p \in Pairs : Cardinality(ScoresOf(db.scores, p[1], p[2])) <= 1
    /\ \A k \in DOMAIN scoring :
          LET c == scoring[k]
          IN  /\ (c.before.exists /\ c.before.has_score_raw) =>
                    /\ ~c.scored
                    /\ c.after = c.before
              /\ (/\ c.before.exists /\ ~c.before.has_score_raw
                  /\ c.what.kind \notin {"load_model", "load_benchmark"}) =>
                    /\ c.scored
                    /\ c.what.kind = "scored" => (c.after.has_score_raw /\ ~c.after.has_comment)
                    /\ c.what.kind = "score" =>
                          c.after.comment = shorten_text(ErrorMessage(c.what.length),
                                                         CommentMaxLength)

\* a pair failed in its score method, was run again and scored, and was not
\* scored a third time
C26_Witness ==
    /\ Len(scoring) = 3
    /\ \A k \in 1..3 : scoring[k].pair = scoring[1].pair
    /\ scoring[1].what.kind = "score" /\ scoring[1].scored
    /\ scoring[2].what.kind = "scored" /\ scoring[2].scored /\ scoring[2].before.has_comment
    /\ scoring[3].what.kind = "scored" /\ ~scoring[3].scored
    /\ Len(db.scores) = 1

\* ---- C27

CreateModelMetaEntryCalled == dbcall.op = "create_model_meta_entry"

ModelAbsentBefore ==
    \A i \in DOMAIN dbcall.models_before :
        dbcall.models_before[i].name # dbcall.model_identifier

TemporarySubmissions ==
    {i \in DOMAIN tables.submissions :
        /\ tables.submissions[i].model_type = "metadata_lookup"
        /\ ~tables.submissions[i].deleted}

ModelsOfDeletedSubmissions ==
    {i \in DOMAIN tables.models : tables.submissions[tables.models[i].submission].deleted}

\* C27: a call of create_model_meta_entry for an identifier that no Model row
\* has raises the ValueError that says the model was not found and creates no
\* Model row and no ModelMeta row; after any call of it no temporary
\* 'metadata_lookup' Submission row remains and no Model row references a
\* deleted submission.
C27_RequiresExistingModel ==
    CreateModelMetaEntryCalled =>
        /\ ModelAbsentBefore =>
              /\ dbcall.outcome = NotFound
              /\ tables.models = dbcall.models_before
              /\ tables.modelmetas = dbcall.modelmetas_before
        /\ TemporarySubmissions = {}
        /\ ModelsOfDeletedSubmissions = {}

\* ---- C28

ModelEntryFromModelCalled == dbcall.op = "modelentry_from_model"

ModelExistedBefore ==
    \E i \in DOMAIN dbcall.models_before :
        dbcall.models_before[i].name = dbcall.model_identifier

\* C28: a call of modelentry_from_model for an identifier that a Model row
\* already has returns that row and leaves its owner, domain, public flag,
\* submission, competition and reference, and every other row, as they were,
\* whoever submits and whatever the arguments; a row is created only when no
\* row has the identifier.
C28_ResubmissionKeepsModelRow ==
    ModelEntryFromModelCalled =>
        /\ ModelExistedBefore =>
              /\ ~dbcall.created
              /\ dbcall.id \in DOMAIN dbcall.models_before
              /\ dbcall.models_before[dbcall.id].name = dbcall.model_identifier
              /\ tables.models = dbcall.models_before
        /\ ~ModelExistedBefore =>
              /\ dbcall.created
              /\ Len(tables.models) = Len(dbcall.models_before) + 1
              /\ dbcall.id = Len(tables.models)
              /\ tables.models[dbcall.id].name = dbcall.model_identifier
              /\ tables.models[dbcall.id].owner = dbcall.submitter
              /\ \A i \in DOMAIN dbcall.models_before :
                    tables.models[i] = dbcall.models_before[i]

\* a model is submitted again by another user, with another public flag and
\* another competition than the row has
C28_Witness ==
    /\ ModelEntryFromModelCalled
    /\ ModelExistedBefore
    /\ ~dbcall.created
    /\ tables.models[dbcall.id].owner # dbcall.submitter
    /\ Len(tables.submissions) = 2
    /\ tables.submissions[2].submitter = dbcall.submitter
    /\ tables.models[dbcall.id].submission = 1

\* ---- C29

RunPair(run) == <<run.model, run.benchmark>>

RunsOfOneLibrary ==
    {rq \in RunIds \X RunIds :
        /\ rq[1] # rq[2]
        /\ runs[rq[1]].pc # "idle" /\ runs[rq[2]].pc # "idle"
        /\ runs[rq[1]].library_path = runs[rq[2]].library_path}

\* C29: two scoring runs of one library for different pairs of model
\* identifier and benchmark identifier have different environment names and
\* different score file paths, and neither reads the score file of the other.
C29_EnvNameInjective ==
    \A rq \in RunsOfOneLibrary :
        LET r == runs[rq[1]]
            q == runs[rq[2]]
        IN  RunPair(r) # RunPair(q) =>
                /\ EnvName(r.model, r.benchmark) # EnvName(q.model, q.benchmark)
                /\ WritePath(r) # WritePath(q)
                /\ ReadPath(r) # ReadPath(q)
                /\ r.read_from # rq[2]

\* ---- C30

\* The last call, when it is plugin_types_to_test_all or parse_plugin_changes on
\* changed files that pass the two assertions on the string of changed files.
ClassifiedInputParsed ==
    /\ parsed.op \in {"plugin_types_to_test_all", "parse_plugin_changes"}
    /\ changed # <<>>
    /\ ~Contains(<<"fatal">>, ChangedFilesString(changed))

ClassifiedPluginRelated == separate_plugin_files(changed, Directories).plugin_related_files

\* C30: for a non-empty list of changed files, plugin_types_to_test_all and
\* parse_plugin_changes return without an assertion failure, and every file
\* that separate_plugin_files classified as plugin-related and that is not a
\* special interface file has exactly one plugin type.
C30_TotalOnClassifiedInput ==
    ClassifiedInputParsed =>
        /\ parsed.outcome = "returned"
        /\ \A f \in Range(ClassifiedPluginRelated) :
              f \notin Range(SPECIAL_PLUGIN_FILES) => Len(PluginTypeOf(f)) = 1

=============================================================================
